---------------------------- MODULE Spec2Model ----------------------------
(***************************************************************************)
(* A model of the decision engines of MCP-InfraOps/chatgpt:                *)
(*   - telemetry.py         CommandTelemetry (counters, history, alerts)   *)
(*   - intent_classifier.py IntentClassifier (model-based path, keyword    *)
(*                          fallback)                                      *)
(* Each handler of the source is one action; pure helpers are operators.   *)
(***************************************************************************)
EXTENDS Integers, Sequences, FiniteSets, TLC

(***************************************************************************)
(* Bounds of the model (not program constants).                            *)
(***************************************************************************)
MaxCalls == 3            \* recordExecution calls in Spec (all six statuses)
MaxAlertCalls == 11      \* recordExecution calls in SpecAlerts
MaxStreakCalls == 6      \* recordExecution calls in SpecStreak
MaxRegressionCalls == 4  \* recordExecution calls in SpecRegression
MaxClock == 3600         \* latest wall-clock second a call is made at
MaxRetentionCalls == 4   \* recordExecution calls in SpecRetention
MaxRetentionClock == 7200 \* latest second a call is made at in SpecRetention
MaxDurationCalls == 3    \* recordExecution calls in SpecDuration
MaxExportCalls == 3      \* recordExecution calls in SpecExport
MaxRegistries == 3       \* DeviceRegistry objects built in SpecRegistry
MaxNames == 3            \* longest device list given to categorizeByStack
MaxThreadCalls == 2
MaxRegistrations == 2
MaxDetections == 1
MaxPurgeCalls == 10      \* recordExecution calls in SpecThreads

(***************************************************************************)
(* Input domains.                                                          *)
(***************************************************************************)
Devices == {"R1", "R2", "R3"}
Commands == {"show version", "ping 8.8.8.8"}
\* The devices and the command of the long runs (Spec, SpecAlerts, SpecStreak).
FewDevices == {"R1", "R2"}
OneCommand == {"show version"}
\* Seconds of wall clock that may pass between two calls.
Delays == {0, 1800}

RetentionDelays == {0, 1800, 3600}
\* The device of the runs that outlast the retention window, and the time
\* between its calls: none, or the whole window.
OneDevice == {"R1"}
PurgeDelays == {0, 3600}
Threads == {"t1", "t2"}
RegistryCallers == {"c1", "c2"}
OneCaller == {"c1"}

\* The duration_ms argument: absent (None), a number of milliseconds, or a
\* value that is not a number (a string such as "fast").
NoDuration == [tag |-> "none", ms |-> 0]
Millis(ms) == [tag |-> "number", ms |-> ms]
Malformed == [tag |-> "malformed", ms |-> 0]
Durations == {NoDuration, Millis(100), Millis(200), Malformed}

(***************************************************************************)
(* telemetry.py: ExecutionStatus (names) and their .value strings.         *)
(***************************************************************************)
ExecutionStatus ==
    {"SUCCESS", "FAILURE", "TIMEOUT", "INVALID_COMMAND", "NO_DEVICE", "UNKNOWN"}

\* The statuses given in the long runs.
AlertStatuses == {"SUCCESS", "FAILURE"}
StreakStatuses == {"SUCCESS", "FAILURE", "TIMEOUT"}
RegressionStatuses == {"SUCCESS", "FAILURE"}

StatusValue(status) ==
    CASE status = "SUCCESS" -> "success"
      [] status = "FAILURE" -> "failure"
      [] status = "TIMEOUT" -> "timeout"
      [] status = "INVALID_COMMAND" -> "invalid_command"
      [] status = "NO_DEVICE" -> "no_device"
      [] status = "UNKNOWN" -> "unknown"

\* Python's None.
None == "None"

(***************************************************************************)
(* Program constants of telemetry.py.                                      *)
(***************************************************************************)
DefaultRetentionSeconds == 3600     \* __init__(retention_seconds=3600)
ConsecutiveFailuresThreshold == 5   \* alert_thresholds["consecutive_failures"]
MinSamples == 10                    \* "Need at least 10 samples"
RecentWindow == 10                  \* status_history[-10:]
RegressionDevices == 3              \* len(devices_failed_on) >= 3

VARIABLES
    retention_seconds,  \* CommandTelemetry.retention_seconds
    device_metrics,     \* CommandTelemetry.device_metrics (defaultdict)
    command_metrics,    \* CommandTelemetry.command_metrics (defaultdict)
    now,                \* the wall clock read by datetime.now()
    lastCall,           \* arguments of the latest record_execution call
    lastReturn,         \* what that call returned: None or a list of alerts
    nCalls,             \* observer: calls made so far, per device
    callLog,            \* observer: the latest calls per device, unpruned
    everFailed,         \* observer: <<command, device>> pairs that ever failed
    exported,           \* the latest export_metrics call: its outcome, the file
    threads             \* the record_execution call each thread is in, if any

VARIABLES
    client,             \* IntentClassifier.client: None or the chat client
    model,              \* IntentClassifier.model
    pc,                 \* where the current classify call stands
    user_query,         \* the text of the current classify call
    lookup,             \* observer: outcome of this call's client lookup
    response,           \* what the backend did in this call (NoResponse: nothing)
    result              \* what the call returned (NoResult: nothing yet)

VARIABLES
    registries,         \* the DeviceRegistry objects built so far
    global_registry,    \* _global_registry: 0 (None) or one of them
    callers,            \* the registry call each caller is in, what it holds
    answer              \* the latest lookup made on a registry, its result

telemetryVars ==
    <<retention_seconds, device_metrics, command_metrics, now, lastCall,
      lastReturn, nCalls, callLog, everFailed, exported, threads>>

classifierVars == <<client, model, pc, user_query, lookup, response, result>>

registryVars == <<registries, global_registry, callers, answer>>

vars == <<telemetryVars, classifierVars, registryVars>>

\* No call made yet.
NoCall ==
    [device |-> None, command |-> None, status |-> None,
     duration_ms |-> NoDuration]

\* record_execution, line 125: return alerts if alerts else None
Returned(alerts) ==
    [is_none |-> alerts = <<>>, alerts |-> alerts, exc |-> None]

\* record_execution left by an exception that nothing in it catches.
Raised(exception) == [is_none |-> FALSE, alerts |-> <<>>, exc |-> exception]

(***************************************************************************)
(* CommandTelemetry.__init__: the defaultdict factories.                   *)
(***************************************************************************)
NewDeviceStats ==
    [total |-> 0, success |-> 0, failure |-> 0, timeout |-> 0,
     avg_duration_ms |-> [num |-> 0, den |-> 1],
     last_execution |-> None, status_history |-> <<>>]

NewCommandStats ==
    [total |-> 0, success |-> 0, failure |-> 0, devices_failed_on |-> {}]

\* No export_metrics call made yet, no file written.
NoFile == [timestamp |-> None, devices |-> <<>>, commands |-> <<>>]
NotExported == [outcome |-> None, file |-> NoFile]

\* A thread outside record_execution; inside, its arguments and locals:
\* tmp is the value read by an augmented assignment that has not stored
\* yet, kept the list built by the comprehension of lines 103-106.
IdleThread ==
    [pc |-> "idle", device |-> None, command |-> None, status |-> None,
     timestamp |-> 0, tmp |-> 0, kept |-> <<>>]

TelemetryInit ==
    /\ retention_seconds = DefaultRetentionSeconds
    /\ device_metrics = [d \in Devices |-> NewDeviceStats]
    /\ command_metrics = [c \in Commands |-> NewCommandStats]
    /\ now = 0
    /\ lastCall = NoCall
    /\ lastReturn = Returned(<<>>)
    /\ nCalls = [d \in Devices |-> 0]
    /\ callLog = [d \in Devices |-> <<>>]
    /\ everFailed = {}
    /\ exported = NotExported
    /\ threads = [t \in Threads |-> IdleThread]

(***************************************************************************)
(* Sequence helpers standing for Python list operations.                   *)
(***************************************************************************)
\* lst[-n:]
LastN(lst, n) ==
    IF Len(lst) <= n THEN lst ELSE SubSeq(lst, Len(lst) - n + 1, Len(lst))

\* Mutant: the history is bounded by count, keeping the two latest entries.
PruneHistory_LastTwo(history, timestamp, retention) == LastN(history, 2)

\* Mutant: only the status "failure" extends the streak.
RECURSIVE CountTrailingFails_OnlyFailure(_)
CountTrailingFails_OnlyFailure(history) ==
    IF history = <<>> THEN 0
    ELSE IF history[Len(history)].status = "failure"
         THEN 1 + CountTrailingFails_OnlyFailure(
                      SubSeq(history, 1, Len(history) - 1))
         ELSE 0

\* Mutant: the scan does not stop at the first "success".
RECURSIVE CountTrailingFails_NoBreak(_)
CountTrailingFails_NoBreak(history) ==
    IF history = <<>> THEN 0
    ELSE (IF history[Len(history)].status # "success" THEN 1 ELSE 0)
         + CountTrailingFails_NoBreak(SubSeq(history, 1, Len(history) - 1))

\* for status, _ in reversed(history): count until the first "success"
RECURSIVE CountTrailingFails(_)
CountTrailingFails(history) ==
    IF history = <<>> THEN 0
    ELSE IF history[Len(history)].status # "success"
         THEN 1 + CountTrailingFails(SubSeq(history, 1, Len(history) - 1))
         ELSE 0

(***************************************************************************)
(* record_execution, lines 83-93: the device counters and the history.     *)
(***************************************************************************)
\* Mutant: only FAILURE counts as a failure; other non-success statuses
\* reach the history but no counter.
UpdateDeviceCounters_OnlyFailure(dev_stats, status, timestamp) ==
    LET counted == [dev_stats EXCEPT !.total = @ + 1,
                                     !.last_execution = timestamp]
    IN IF status = "SUCCESS"
       THEN [counted EXCEPT
               !.success = @ + 1,
               !.status_history =
                   Append(@, [status |-> "success", t |-> timestamp])]
       ELSE [counted EXCEPT
               !.failure = IF status = "FAILURE" THEN @ + 1 ELSE @,
               !.status_history =
                   Append(@, [status |-> StatusValue(status), t |-> timestamp])]

UpdateDeviceCounters(dev_stats, status, timestamp) ==
    LET counted == [dev_stats EXCEPT !.total = @ + 1,
                                     !.last_execution = timestamp]
    IN IF status = "SUCCESS"
       THEN [counted EXCEPT
               !.success = @ + 1,
               !.status_history =
                   Append(@, [status |-> "success", t |-> timestamp])]
       ELSE [counted EXCEPT
               !.failure = @ + 1,
               !.status_history =
                   Append(@, [status |-> StatusValue(status), t |-> timestamp])]

(***************************************************************************)
(* record_execution, lines 95-99: the exponential moving average           *)
(* 0.3 * duration_ms + 0.7 * current_avg, kept as the exact quotient       *)
(* num / den (the code holds its double approximation).  A number times a  *)
(* value that is not a number raises TypeError.                            *)
(***************************************************************************)
Ema(current_avg, ms) ==
    [num |-> 3 * ms * current_avg.den + 7 * current_avg.num,
     den |-> 10 * current_avg.den]

\* Mutant: a duration that is not a number is skipped.
DurationRaises_Skipped(duration_ms) == FALSE

DurationRaises(duration_ms) == duration_ms.tag = "malformed"

UpdateAverage(dev_stats, duration_ms) ==
    IF duration_ms.tag = "number"
    THEN [dev_stats EXCEPT !.avg_duration_ms = Ema(@, duration_ms.ms)]
    ELSE dev_stats

(***************************************************************************)
(* record_execution, lines 101-106: keep only recent history.              *)
(***************************************************************************)
KeepEntry(entry, cutoff) == entry.t > cutoff

PruneHistory(history, timestamp, retention) ==
    LET cutoff == timestamp - retention
        Keep(entry) == KeepEntry(entry, cutoff)
    IN SelectSeq(history, Keep)

(***************************************************************************)
(* record_execution, lines 108-116: the command counters.                  *)
(***************************************************************************)
\* Mutant: a SUCCESS takes the device out of the set the command failed on.
UpdateCommandCounters_SuccessClears(cmd_stats, status, device) ==
    LET counted == [cmd_stats EXCEPT !.total = @ + 1]
    IN IF status = "SUCCESS"
       THEN [counted EXCEPT !.success = @ + 1,
                            !.devices_failed_on = @ \ {device}]
       ELSE [counted EXCEPT !.failure = @ + 1,
                            !.devices_failed_on = @ \cup {device}]

UpdateCommandCounters(cmd_stats, status, device) ==
    LET counted == [cmd_stats EXCEPT !.total = @ + 1]
    IN IF status = "SUCCESS"
       THEN [counted EXCEPT !.success = @ + 1]
       ELSE [counted EXCEPT !.failure = @ + 1,
                            !.devices_failed_on = @ \cup {device}]

(***************************************************************************)
(* _check_alerts, the three rules.  failure / total > 0.3 is a comparison  *)
(* of doubles; for totals below 10^15 the correctly rounded quotient is    *)
(* above the double 0.3 exactly when 10 * failure > 3 * total.             *)
(***************************************************************************)
\* Mutant: the rate is compared with >= instead of >.
FailureRateExceeded_AtLeast(dev_stats) ==
    /\ dev_stats.total >= MinSamples
    /\ 10 * dev_stats.failure >= 3 * dev_stats.total

\* Mutant: the rate is taken over the entries still in the history.
FailureRateExceeded_OverHistory(dev_stats) ==
    LET Failed(entry) == entry.status # "success"
        failed == Len(SelectSeq(dev_stats.status_history, Failed))
    IN /\ dev_stats.total >= MinSamples
       /\ 10 * failed > 3 * Len(dev_stats.status_history)

FailureRateExceeded(dev_stats) ==
    /\ dev_stats.total >= MinSamples
    /\ 10 * dev_stats.failure > 3 * dev_stats.total

ConsecutiveFails(dev_stats) ==
    CountTrailingFails(LastN(dev_stats.status_history, RecentWindow))

ConsecutiveFailuresExceeded(dev_stats) ==
    ConsecutiveFails(dev_stats) >= ConsecutiveFailuresThreshold

\* Mutant: failures are counted, not the distinct devices they were on.
CommandRegression_CountsFailures(cmd_stats) ==
    cmd_stats.failure >= RegressionDevices

CommandRegression(cmd_stats) ==
    Cardinality(cmd_stats.devices_failed_on) >= RegressionDevices

CheckAlerts(dev_stats, cmd_stats, device, command) ==
    (IF FailureRateExceeded(dev_stats)
     THEN <<[kind |-> "HIGH FAILURE RATE", on |-> device,
             count |-> dev_stats.failure]>>
     ELSE <<>>)
    \o
    (IF ConsecutiveFailuresExceeded(dev_stats)
     THEN <<[kind |-> "CONSECUTIVE FAILURES", on |-> device,
             count |-> ConsecutiveFails(dev_stats)]>>
     ELSE <<>>)
    \o
    (IF CommandRegression(cmd_stats)
     THEN <<[kind |-> "COMMAND REGRESSION", on |-> command,
             count |-> Cardinality(cmd_stats.devices_failed_on)]>>
     ELSE <<>>)

(***************************************************************************)
(* CommandTelemetry.record_execution(device, command, status, duration_ms) *)
(* called `delay` seconds after the previous call.  The TypeError of line  *)
(* 99 leaves the method after the device counters and the history entry    *)
(* were written and before pruning, the command counters and the alerts.   *)
(***************************************************************************)
RecordExecution(device, command, status, delay, duration_ms) ==
    LET timestamp == now + delay
        counted == UpdateDeviceCounters(device_metrics[device], status, timestamp)
        averaged == UpdateAverage(counted, duration_ms)
        dev_stats == [averaged EXCEPT !.status_history =
                         PruneHistory(@, timestamp, retention_seconds)]
        cmd_stats == UpdateCommandCounters(command_metrics[command], status, device)
        alerts == CheckAlerts(dev_stats, cmd_stats, device, command)
    IN /\ now' = timestamp
       /\ lastCall' = [device |-> device, command |-> command, status |-> status,
                       duration_ms |-> duration_ms]
       /\ nCalls' = [nCalls EXCEPT ![device] = @ + 1]
       /\ callLog' = [callLog EXCEPT ![device] =
              LastN(Append(@, [status |-> status, t |-> timestamp]),
                    ConsecutiveFailuresThreshold)]
       /\ everFailed' = IF status = "SUCCESS" THEN everFailed
                        ELSE everFailed \cup {<<command, device>>}
       /\ IF DurationRaises(duration_ms)
          THEN /\ device_metrics' = [device_metrics EXCEPT ![device] = counted]
               /\ lastReturn' = Raised("TypeError")
               /\ UNCHANGED command_metrics
          ELSE /\ device_metrics' = [device_metrics EXCEPT ![device] = dev_stats]
               /\ command_metrics' = [command_metrics EXCEPT ![command] = cmd_stats]
               /\ lastReturn' = Returned(alerts)
       /\ UNCHANGED <<retention_seconds, exported, threads, classifierVars,
                      registryVars>>

(***************************************************************************)
(* record_execution run by several threads on the one global instance.     *)
(* Nothing in telemetry.py takes a lock, so the threads interleave between *)
(* the reads and writes of the statements: x["k"] += 1 reads, adds and     *)
(* stores, and lines 103-106 build a new list and then store it.           *)
(***************************************************************************)
At(t, pc_value) == threads[t].pc = pc_value

Goto(t, pc_value) == [threads EXCEPT ![t].pc = pc_value]

\* What a step of a running call leaves alone besides the metrics.
ThreadFrame ==
    UNCHANGED <<retention_seconds, now, lastCall, lastReturn, nCalls, callLog,
                everFailed, exported, classifierVars, registryVars>>

\* The counter a status goes to, lines 88-93 and 111-115.
CounterOf(status) == IF status = "SUCCESS" THEN "success" ELSE "failure"

\* line 81: the call starts and reads the clock
ThreadCall(t, device, command, status) ==
    /\ At(t, "idle")
    /\ threads' = [threads EXCEPT ![t] =
           [IdleThread EXCEPT !.pc = "read_total", !.device = device,
                              !.command = command, !.status = status,
                              !.timestamp = now]]
    /\ nCalls' = [nCalls EXCEPT ![device] = @ + 1]
    /\ callLog' = [callLog EXCEPT ![device] =
           LastN(Append(@, [status |-> status, t |-> now]),
                 ConsecutiveFailuresThreshold)]
    /\ everFailed' = IF status = "SUCCESS" THEN everFailed
                     ELSE everFailed \cup {<<command, device>>}
    /\ UNCHANGED <<retention_seconds, device_metrics, command_metrics, now,
                   lastCall, lastReturn, exported, classifierVars,
                   registryVars>>

\* line 85, dev_stats["total"] += 1: the read
ReadTotal(t) ==
    /\ At(t, "read_total")
    /\ threads' = [Goto(t, "write_total") EXCEPT
                      ![t].tmp = device_metrics[threads[t].device].total]
    /\ UNCHANGED <<device_metrics, command_metrics>>
    /\ ThreadFrame

\* line 85, the store; line 86
WriteTotal(t) ==
    /\ At(t, "write_total")
    /\ device_metrics' = [device_metrics EXCEPT ![threads[t].device] =
           [@ EXCEPT !.total = threads[t].tmp + 1,
                     !.last_execution = threads[t].timestamp]]
    /\ threads' = Goto(t, "read_count")
    /\ UNCHANGED command_metrics
    /\ ThreadFrame

\* lines 89 and 92, dev_stats["success" or "failure"] += 1: the read
ReadCount(t) ==
    /\ At(t, "read_count")
    /\ threads' = [Goto(t, "write_count") EXCEPT ![t].tmp =
           device_metrics[threads[t].device][CounterOf(threads[t].status)]]
    /\ UNCHANGED <<device_metrics, command_metrics>>
    /\ ThreadFrame

\* lines 89 and 92, the store
WriteCount(t) ==
    /\ At(t, "write_count")
    /\ device_metrics' = [device_metrics EXCEPT ![threads[t].device] =
           [@ EXCEPT ![CounterOf(threads[t].status)] = threads[t].tmp + 1]]
    /\ threads' = Goto(t, "append")
    /\ UNCHANGED command_metrics
    /\ ThreadFrame

\* lines 90 and 93: list.append on the list the device record holds now
AppendHistory(t) ==
    /\ At(t, "append")
    /\ device_metrics' = [device_metrics EXCEPT ![threads[t].device] =
           [@ EXCEPT !.status_history =
               Append(@, [status |-> StatusValue(threads[t].status),
                          t |-> threads[t].timestamp])]]
    /\ threads' = Goto(t, "prune_read")
    /\ UNCHANGED command_metrics
    /\ ThreadFrame

\* lines 102-106: the comprehension builds the new list
PruneRead(t) ==
    /\ At(t, "prune_read")
    /\ threads' = [Goto(t, "prune_assign") EXCEPT ![t].kept =
           PruneHistory(device_metrics[threads[t].device].status_history,
                        threads[t].timestamp, retention_seconds)]
    /\ UNCHANGED <<device_metrics, command_metrics>>
    /\ ThreadFrame

\* line 103: dev_stats["status_history"] = the new list
PruneAssign(t) ==
    /\ At(t, "prune_assign")
    /\ device_metrics' = [device_metrics EXCEPT ![threads[t].device] =
           [@ EXCEPT !.status_history = threads[t].kept]]
    /\ threads' = Goto(t, "cmd_read_total")
    /\ UNCHANGED command_metrics
    /\ ThreadFrame

\* line 110, cmd_stats["total"] += 1: the read
CmdReadTotal(t) ==
    /\ At(t, "cmd_read_total")
    /\ threads' = [Goto(t, "cmd_write_total") EXCEPT
                      ![t].tmp = command_metrics[threads[t].command].total]
    /\ UNCHANGED <<device_metrics, command_metrics>>
    /\ ThreadFrame

\* line 110, the store
CmdWriteTotal(t) ==
    /\ At(t, "cmd_write_total")
    /\ command_metrics' = [command_metrics EXCEPT ![threads[t].command] =
           [@ EXCEPT !.total = threads[t].tmp + 1]]
    /\ threads' = Goto(t, "cmd_read_count")
    /\ UNCHANGED device_metrics
    /\ ThreadFrame

\* lines 113 and 115, cmd_stats["success" or "failure"] += 1: the read
CmdReadCount(t) ==
    /\ At(t, "cmd_read_count")
    /\ threads' = [Goto(t, "cmd_write_count") EXCEPT ![t].tmp =
           command_metrics[threads[t].command][CounterOf(threads[t].status)]]
    /\ UNCHANGED <<device_metrics, command_metrics>>
    /\ ThreadFrame

\* lines 113 and 115, the store; line 116, set.add
CmdWriteCount(t) ==
    /\ At(t, "cmd_write_count")
    /\ command_metrics' = [command_metrics EXCEPT ![threads[t].command] =
           [@ EXCEPT ![CounterOf(threads[t].status)] = threads[t].tmp + 1,
                     !.devices_failed_on =
                         IF threads[t].status = "SUCCESS" THEN @
                         ELSE @ \cup {threads[t].device}]]
    /\ threads' = Goto(t, "check_alerts")
    /\ UNCHANGED device_metrics
    /\ ThreadFrame

\* lines 119-125: the alert rules on the metrics as they are now; return
ThreadReturn(t) ==
    /\ At(t, "check_alerts")
    /\ lastCall' = [device |-> threads[t].device,
                    command |-> threads[t].command,
                    status |-> threads[t].status, duration_ms |-> NoDuration]
    /\ lastReturn' = Returned(CheckAlerts(device_metrics[threads[t].device],
                                          command_metrics[threads[t].command],
                                          threads[t].device, threads[t].command))
    /\ threads' = [threads EXCEPT ![t] = IdleThread]
    /\ UNCHANGED <<retention_seconds, device_metrics, command_metrics, now,
                   nCalls, callLog, everFailed, exported, classifierVars,
                   registryVars>>

(***************************************************************************)
(* get_health_report, lines 167-200.  success / total >= 0.9 and >= 0.7    *)
(* compare doubles; for the totals reached here the quotient is at or      *)
(* above the double exactly when 10 * success >= 9 * total (7 * total).    *)
(***************************************************************************)
\* round(avg, 2), in hundredths of a millisecond: to the nearest hundredth,
\* a tie going to the even one.
Round2(avg) ==
    LET twice == (200 * avg.num) \div avg.den
        exact == (200 * avg.num) % avg.den = 0
        down == twice \div 2
    IN IF twice % 2 = 0 THEN down
       ELSE IF exact /\ down % 2 = 0 THEN down
       ELSE down + 1

HealthStatus(metrics) ==
    IF 10 * metrics.success >= 9 * metrics.total THEN "healthy"
    ELSE IF 10 * metrics.success >= 7 * metrics.total THEN "degraded"
    ELSE "critical"

HealthReport ==
    [timestamp |-> now,
     devices |->
        [d \in {x \in Devices : device_metrics[x].total > 0} |->
            [total |-> device_metrics[d].total,
             success |-> device_metrics[d].success,
             failure |-> device_metrics[d].failure,
             avg_duration_ms |-> Round2(device_metrics[d].avg_duration_ms),
             status |-> HealthStatus(device_metrics[d])]],
     commands |->
        [c \in {x \in Commands : command_metrics[x].total > 0} |->
            [total |-> command_metrics[c].total,
             failed_on |-> command_metrics[c].devices_failed_on,
             status |-> HealthStatus(command_metrics[c])]]]

(***************************************************************************)
(* CommandTelemetry.export_metrics(filepath), lines 202-207: open() raises *)
(* OSError for a path that cannot be written, and nothing catches it.      *)
(***************************************************************************)
ExportOutcome(writable) == IF writable THEN "returned" ELSE "OSError"

ExportMetrics(writable) ==
    LET report == HealthReport
    IN /\ exported' = [outcome |-> ExportOutcome(writable),
                       file |-> IF writable THEN report ELSE exported.file]
       /\ UNCHANGED <<retention_seconds, device_metrics, command_metrics, now,
                      lastCall, lastReturn, nCalls, callLog, everFailed,
                      threads, classifierVars, registryVars>>

(***************************************************************************)
(* intent_classifier.py: RequestIntent, in the order of its definition.    *)
(***************************************************************************)
IntentOrder ==
    <<"KNOWLEDGE", "NETWORK_DEVICE", "INFRASTRUCTURE", "SERVICENOW", "SEARCH",
      "OTHER">>

RequestIntent == {IntentOrder[i] : i \in 1..Len(IntentOrder)}

(***************************************************************************)
(* str.lower() and str.upper() on ASCII text.                              *)
(***************************************************************************)
UpperLetters == "ABCDEFGHIJKLMNOPQRSTUVWXYZ"
LowerLetters == "abcdefghijklmnopqrstuvwxyz"

\* The character `c` with the letters of `from` replaced by those of `to`.
MapChar(c, from, to) ==
    IF \E i \in 1..Len(from) : SubSeq(from, i, i) = c
    THEN LET i == CHOOSE j \in 1..Len(from) : SubSeq(from, j, j) = c
         IN SubSeq(to, i, i)
    ELSE c

RECURSIVE MapString(_, _, _)
MapString(str, from, to) ==
    IF Len(str) = 0 THEN ""
    ELSE MapChar(SubSeq(str, 1, 1), from, to)
         \o MapString(SubSeq(str, 2, Len(str)), from, to)

Lower(str) == MapString(str, UpperLetters, LowerLetters)

Upper(str) == MapString(str, LowerLetters, UpperLetters)

\* keyword in text
Contains(text, keyword) ==
    \E i \in 1..(Len(text) - Len(keyword) + 1) :
        SubSeq(text, i, i + Len(keyword) - 1) = keyword

(***************************************************************************)
(* _classify_with_keywords, lines 265-287: the keyword table.              *)
(***************************************************************************)
Patterns(intent) ==
    CASE intent = "INFRASTRUCTURE" ->
           <<"create vm", "create vnet", "create subnet", "create firewall",
             "create azure", "deploy vm", "terraform", "infrastructure",
             "storage account", "app gateway", "resource group">>
      [] intent = "NETWORK_DEVICE" ->
           <<"show interface", "show version", "configure", "cisco",
             "router", "switch", "device", "testbed", "pyats",
             "r1", "r2", "sw1", "sw2", "vlan", "acl", "bgp">>
      [] intent = "SERVICENOW" ->
           <<"create ticket", "incident", "problem", "ticket",
             "create problem", "create incident">>
      [] intent = "KNOWLEDGE" ->
           <<"what is", "explain", "tell me about", "how does",
             "definition of", "describe", "what are", "information about">>
      [] intent = "SEARCH" ->
           <<"search for", "find", "look up", "research">>
      [] OTHER -> <<>>

\* lines 290-295: the number of the intent's keywords found in the text
IntentScore(intent, query_lower) ==
    Cardinality({k \in 1..Len(Patterns(intent)) :
                    Contains(query_lower, Patterns(intent)[k])})

IntentScores(query_lower) ==
    [i \in 1..Len(IntentOrder) |-> IntentScore(IntentOrder[i], query_lower)]

\* Mutant: of the highest-scoring intents the last one wins.
BestIntentIndex_LastWins(scores) ==
    CHOOSE i \in DOMAIN scores :
        /\ \A j \in DOMAIN scores : scores[j] <= scores[i]
        /\ \A j \in DOMAIN scores : j > i => scores[j] < scores[i]

\* line 298: max(intent_scores, key=intent_scores.get), the first of the
\* highest-scoring intents in the dictionary's (the enum's) order
BestIntentIndex(scores) ==
    CHOOSE i \in DOMAIN scores :
        /\ \A j \in DOMAIN scores : scores[j] <= scores[i]
        /\ \A j \in DOMAIN scores : j < i => scores[j] < scores[i]

RECURSIVE SumSeq(_)
SumSeq(seq) == IF seq = <<>> THEN 0 ELSE Head(seq) + SumSeq(Tail(seq))

\* A confidence, as the fraction num / den.
Fraction(num, den) == [num |-> num, den |-> den]

(***************************************************************************)
(* IntentClassifier._classify_with_keywords.                               *)
(***************************************************************************)
ClassifyWithKeywords(text) ==
    LET query_lower == Lower(text)
        scores == IntentScores(query_lower)
        best == BestIntentIndex(scores)
        best_intent == IF scores[best] = 0 THEN "OTHER" ELSE IntentOrder[best]
        confidence == IF scores[best] = 0 THEN Fraction(3, 10)
                      ELSE Fraction(scores[best], SumSeq(scores))
    IN [intent |-> best_intent,
        confidence |-> confidence,
        reasoning |-> "Keyword match: " \o best_intent,
        method |-> "keywords"]

(***************************************************************************)
(* The backend collaborator's outcome for one chat.completions.create      *)
(* call, and the fields of the JSON object it may reply with.              *)
(***************************************************************************)
\* The "intent" member: absent, not a string (null, a number), or a string.
IntentFields ==
    {[tag |-> "absent", str |-> ""], [tag |-> "non_string", str |-> ""]}
    \cup {[tag |-> "string", str |-> str] :
            str \in {"KNOWLEDGE", "network_device", "Search", "OTHER",
                     "SERVICENOW", "INFRASTRUCTURE", "BOGUS", "ROUTER", ""}}

\* The "confidence" member: absent, a number (0.95, 7.5, -1), a string
\* float() converts, a string it does not ("high"), or null.
ConfidenceFields ==
    {[tag |-> "absent", num |-> 0, den |-> 1],
     [tag |-> "number", num |-> 95, den |-> 100],
     [tag |-> "number", num |-> 75, den |-> 10],
     [tag |-> "number", num |-> -1, den |-> 1],
     [tag |-> "numeric_string", num |-> 9, den |-> 10],
     [tag |-> "text", num |-> 0, den |-> 1],
     [tag |-> "null", num |-> 0, den |-> 1]}

NoFields == [tag |-> "absent", str |-> ""]
NoConfidence == [tag |-> "absent", num |-> 0, den |-> 1]

\* kind: "raise" (create() raises), "no_content" (message.content is None),
\* "not_json", "json_non_object" (a list, a number, ...), "json_object".
Responses ==
    {[kind |-> k, intent |-> NoFields, confidence |-> NoConfidence] :
        k \in {"raise", "no_content", "not_json", "json_non_object"}}
    \cup {[kind |-> "json_object", intent |-> i, confidence |-> c] :
            i \in IntentFields, c \in ConfidenceFields}

NoResponse == [kind |-> "none", intent |-> NoFields, confidence |-> NoConfidence]

\* A call's outcome: a returned result, or an exception leaving the call.
NoResult ==
    [intent |-> None, confidence |-> Fraction(0, 1), reasoning |-> None,
     method |-> None]

Return(value) == [exc |-> None, value |-> value]
Raise(exception) == [exc |-> exception, value |-> NoResult]

(***************************************************************************)
(* _classify_with_llm, lines 119-155: the body of the try blocks.          *)
(***************************************************************************)
\* line 136: float(result.get("confidence", 0.5))
FloatOfConfidence(field) ==
    CASE field.tag = "absent" -> Return(Fraction(5, 10))
      [] field.tag \in {"number", "numeric_string"} ->
           Return(Fraction(field.num, field.den))
      [] field.tag = "text" -> Raise("ValueError")
      [] field.tag = "null" -> Raise("TypeError")

\* Mutant: the intent string is used as it is, without validation.
ValidateIntent_Unchecked(intent_str) == intent_str

\* lines 140-144: RequestIntent[intent_str], OTHER on KeyError
ValidateIntent(intent_str) ==
    IF intent_str \in RequestIntent THEN intent_str ELSE "OTHER"

\* Mutant: an unrecognized intent string is a failure (KeyError not caught).
ParseObject_KeyErrorEscapes(reply) ==
    IF reply.intent.tag = "non_string" THEN Raise("AttributeError")
    ELSE LET intent_str ==
                 Upper(IF reply.intent.tag = "absent" THEN "OTHER"
                       ELSE reply.intent.str)
             confidence == FloatOfConfidence(reply.confidence)
         IN IF confidence.exc # None THEN Raise(confidence.exc)
            ELSE IF intent_str \notin RequestIntent THEN Raise("KeyError")
            ELSE Return([intent |-> intent_str,
                         confidence |-> confidence.value,
                         reasoning |-> "LLM classification",
                         method |-> "llm"])

\* lines 135-155, for a reply that parsed to a JSON object
ParseObject(reply) ==
    IF reply.intent.tag = "non_string" THEN Raise("AttributeError")
    ELSE LET intent_str ==
                 Upper(IF reply.intent.tag = "absent" THEN "OTHER"
                       ELSE reply.intent.str)
             confidence == FloatOfConfidence(reply.confidence)
         IN IF confidence.exc # None THEN Raise(confidence.exc)
            ELSE Return([intent |-> ValidateIntent(intent_str),
                         confidence |-> confidence.value,
                         reasoning |-> "LLM classification",
                         method |-> "llm"])

\* lines 119-155
LlmAttempt(reply) ==
    CASE reply.kind = "raise" -> Raise("TransportError")
      [] reply.kind = "no_content" -> Raise("AttributeError")
      [] reply.kind = "not_json" -> Raise("JSONDecodeError")
      [] reply.kind = "json_non_object" -> Raise("AttributeError")
      [] reply.kind = "json_object" -> ParseObject(reply)

\* Mutant: the handler catches parse errors only.
CaughtByExcept_OnlyDecodeErrors(exception) ==
    exception \in {"JSONDecodeError"}

\* lines 157 and 162: `except json.JSONDecodeError` and, around it,
\* `except Exception`, which every exception of the attempt derives from
CaughtByExcept(exception) ==
    exception \in {"JSONDecodeError", "TransportError", "AttributeError",
                   "ValueError", "TypeError", "KeyError"}

\* The requests classified.
Queries ==
    {"Show version on R1", "What is BGP?", "Find the incident",
     "hello there", "Create ticket for terraform"}

\* _classify_with_keywords, tabulated over the requests classified.
KeywordResult == [q \in Queries |-> ClassifyWithKeywords(q)]

\* Mutant: a failed attempt returns a default result instead of falling
\* back to the keywords.
ClassifyWithLlm_DefaultOnError(text, reply) ==
    LET attempt == LlmAttempt(reply)
    IN IF attempt.exc = None THEN attempt
       ELSE IF CaughtByExcept(attempt.exc)
            THEN Return([intent |-> "OTHER", confidence |-> Fraction(0, 1),
                         reasoning |-> "LLM classification", method |-> "llm"])
            ELSE attempt

(***************************************************************************)
(* IntentClassifier._classify_with_llm, given what the backend did.        *)
(***************************************************************************)
ClassifyWithLlm(text, reply) ==
    LET attempt == LlmAttempt(reply)
    IN IF attempt.exc = None THEN attempt
       ELSE IF CaughtByExcept(attempt.exc)
            THEN Return(KeywordResult[text])
            ELSE attempt

(***************************************************************************)
(* The classifier's state after get_classifier() built it.                 *)
(***************************************************************************)
ClassifierInit ==
    /\ client = None
    /\ model = None
    /\ pc = "idle"
    /\ user_query = ""
    /\ lookup = None
    /\ response = NoResponse
    /\ result = NoResult

\* Outcomes of `from http_server import client, ...`.
Lookups == {"ImportError", "no_client", "client"}

(***************************************************************************)
(* IntentClassifier.classify, lines 70-91, up to the backend call.         *)
(* `imported` is the outcome of the import when self.client is None.       *)
(***************************************************************************)
Classify(text, imported, use_ollama, use_groq) ==
    /\ pc \in {"idle", "returned", "raised"}
    /\ user_query' = text
    /\ response' = NoResponse
    /\ IF client # None
       THEN /\ lookup' = "kept"
            /\ pc' = "awaiting_backend"
            /\ result' = NoResult
            /\ UNCHANGED <<client, model>>
       ELSE /\ lookup' = imported
            /\ IF imported = "ImportError"
               THEN /\ pc' = "returned"
                    /\ result' = KeywordResult[text]
                    /\ UNCHANGED <<client, model>>
               ELSE /\ client' = IF imported = "client" THEN "client" ELSE None
                    /\ model' = IF use_ollama THEN "OLLAMA_MODEL"
                                ELSE IF use_groq THEN "GROQ_MODEL"
                                ELSE IF model = None THEN "gpt-3.5-turbo"
                                ELSE model
                    /\ IF imported = "client"
                       THEN pc' = "awaiting_backend" /\ result' = NoResult
                       ELSE /\ pc' = "returned"
                            /\ result' = KeywordResult[text]
    /\ UNCHANGED <<telemetryVars, registryVars>>

(***************************************************************************)
(* The backend: self.client.chat.completions.create returns or raises.     *)
(* The call is made with no timeout and blocks until then.                 *)
(***************************************************************************)
BackendResponds(reply) ==
    /\ pc = "awaiting_backend"
    /\ response' = reply
    /\ pc' = "responded"
    /\ UNCHANGED <<client, model, user_query, lookup, result, telemetryVars,
                   registryVars>>

(***************************************************************************)
(* _classify_with_llm, lines 129-165: the rest of the call.                *)
(***************************************************************************)
FinishClassify ==
    /\ pc = "responded"
    /\ LET outcome == ClassifyWithLlm(user_query, response)
       IN IF outcome.exc = None
          THEN pc' = "returned" /\ result' = outcome.value
          ELSE pc' = "raised" /\ result' = NoResult
    /\ UNCHANGED <<client, model, user_query, lookup, response, telemetryVars,
                   registryVars>>

(***************************************************************************)
(* device_registry.py.  Python dicts are functions; a dict whose order of  *)
(* insertion the code depends on (DeviceRegistry.devices) is a sequence.   *)
(***************************************************************************)
EmptyDict == <<>>

\* dict.get(key, default)
Get(dict, key, default) == IF key \in DOMAIN dict THEN dict[key] ELSE default

\* dict[key] = value
Put(dict, key, value) ==
    [k \in DOMAIN dict \cup {key} |-> IF k = key THEN value ELSE dict[k]]

\* any(x in text for x in keywords)
ContainsAny(text, keywords) ==
    \E i \in 1..Len(keywords) : Contains(text, keywords[i])

\* str.strip() on text whose only whitespace is the space
RECURSIVE Strip(_)
Strip(str) ==
    IF Len(str) = 0 THEN ""
    ELSE IF SubSeq(str, 1, 1) = " " THEN Strip(SubSeq(str, 2, Len(str)))
    ELSE IF SubSeq(str, Len(str), Len(str)) = " "
         THEN Strip(SubSeq(str, 1, Len(str) - 1))
    ELSE str

(***************************************************************************)
(* _load_vendor_stack_map, lines 30-64.  The vendor tag file is missing,   *)
(* unreadable as YAML, or a document whose `stacks` section lists, stack   *)
(* by stack, the member vendors.                                           *)
(***************************************************************************)
DefaultMap ==
    [vendor \in {"cisco", "linux", "windows", "juniper", "hpe", "meraki",
                 "azure"} |->
        IF vendor = "cisco" THEN "pyats" ELSE "ansible"]

RECURSIVE MergeVendors(_, _, _)
MergeVendors(vendor_stack_map, stack_name, vendors) ==
    IF vendors = <<>> THEN vendor_stack_map
    ELSE LET vendor_key == Lower(Strip(Head(vendors)))
         IN MergeVendors(IF vendor_key # ""
                         THEN Put(vendor_stack_map, vendor_key, stack_name)
                         ELSE vendor_stack_map,
                         stack_name, Tail(vendors))

RECURSIVE MergeStacks(_, _)
MergeStacks(vendor_stack_map, stacks) ==
    IF stacks = <<>> THEN vendor_stack_map
    ELSE MergeStacks(MergeVendors(vendor_stack_map, Head(stacks).stack_name,
                                  Head(stacks).vendors),
                     Tail(stacks))

LoadVendorStackMap(tag_file) ==
    IF tag_file.kind = "document"
    THEN MergeStacks(DefaultMap, tag_file.stacks)
    ELSE DefaultMap

(***************************************************************************)
(* _detect_vendor, lines 142-189.                                          *)
(***************************************************************************)
\* Mutant: the Cisco rule is tried before the Juniper rule.
DetectVendor_CiscoFirst(platform, os_type, device_name) ==
    IF \/ ContainsAny(platform,
                      <<"ios", "iosxe", "iosxr", "csr", "nxos", "cisco">>)
       \/ Contains(os_type, "ios")
    THEN "cisco"
    ELSE IF \/ ContainsAny(platform,
                           <<"junos", "juniper", "vsrx", "srx", "mx", "ex">>)
            \/ Contains(os_type, "junos")
    THEN "juniper"
    ELSE IF ContainsAny(platform, <<"comware", "hpe", "hp">>) THEN "hpe"
    ELSE IF Contains(platform, "meraki") THEN "meraki"
    ELSE IF ContainsAny(os_type,
                        <<"linux", "ubuntu", "debian", "centos", "rhel">>)
    THEN "linux"
    ELSE IF ContainsAny(platform, <<"windows", "winrm">>) THEN "windows"
    ELSE IF Contains(Lower(device_name), "firewall") THEN "juniper"
    ELSE "unknown"

\* Mutant: the vendor is detected from the OS field alone.
DetectVendor_ByOsOnly(platform, os_type, device_name) ==
    IF Contains(os_type, "junos") THEN "juniper"
    ELSE IF Contains(os_type, "ios") THEN "cisco"
    ELSE IF Contains(os_type, "comware") THEN "hpe"
    ELSE IF ContainsAny(os_type,
                        <<"linux", "ubuntu", "debian", "centos", "rhel">>)
    THEN "linux"
    ELSE IF Contains(os_type, "windows") THEN "windows"
    ELSE "unknown"

DetectVendor(platform, os_type, device_name) ==
    IF ContainsAny(platform, <<"junos", "juniper", "vsrx", "srx", "mx", "ex">>)
    THEN "juniper"
    ELSE IF Contains(os_type, "junos") THEN "juniper"
    ELSE IF ContainsAny(platform,
                        <<"ios", "iosxe", "iosxr", "csr", "nxos", "cisco">>)
    THEN "cisco"
    ELSE IF Contains(os_type, "ios") \/ Contains(os_type, "iosxe") THEN "cisco"
    ELSE IF ContainsAny(platform, <<"comware", "hpe", "hp">>) THEN "hpe"
    ELSE IF Contains(os_type, "comware") THEN "hpe"
    ELSE IF Contains(platform, "meraki") \/ Contains(os_type, "meraki")
    THEN "meraki"
    ELSE IF ContainsAny(platform,
                        <<"ubuntu", "linux", "debian", "centos", "rhel">>)
    THEN "linux"
    ELSE IF ContainsAny(os_type,
                        <<"linux", "ubuntu", "debian", "centos", "rhel">>)
    THEN "linux"
    ELSE IF ContainsAny(platform, <<"windows", "winrm">>) THEN "windows"
    ELSE IF Contains(os_type, "windows") THEN "windows"
    ELSE IF device_name # "" /\ Contains(Lower(device_name), "router")
    THEN "cisco"
    ELSE IF device_name # "" /\ Contains(Lower(device_name), "switch")
    THEN "cisco"
    ELSE IF /\ device_name # ""
            /\ \/ Contains(Lower(device_name), "firewall")
               \/ Contains(Lower(device_name), "srx")
    THEN "juniper"
    ELSE IF /\ device_name # ""
            /\ \/ Contains(Lower(device_name), "vm")
               \/ Contains(Lower(device_name), "host")
    THEN "linux"
    ELSE "unknown"

(***************************************************************************)
(* DeviceRegistry.__init__ up to load_devices, lines 20-27, and            *)
(* register_device, lines 87-115.  Of the stored device info the type,     *)
(* alias and ip, which no lookup reads, are left out.                      *)
(***************************************************************************)
NewRegistry(testbed_path, tag_file) ==
    [testbed_path |-> testbed_path,
     vendor_tag_file |-> tag_file,
     devices |-> <<>>,
     vendor_to_devices |-> EmptyDict,
     platform_to_vendor |-> EmptyDict,
     vendor_stack_map |-> LoadVendorStackMap(tag_file)]

\* self.devices[device_name] = info
SetDevice(devices, info) ==
    IF \E i \in 1..Len(devices) : devices[i].name = info.name
    THEN [i \in 1..Len(devices) |->
             IF devices[i].name = info.name THEN info ELSE devices[i]]
    ELSE Append(devices, info)

\* Mutant: the platform index is overwritten by every registration.
RegisterDevice_LastPlatformWins(registry, device_name, device_config) ==
    LET platform == Lower(Get(device_config, "platform", "unknown"))
        os_type == Lower(Get(device_config, "os", "unknown"))
        vendor == DetectVendor(platform, os_type, device_name)
    IN [registry EXCEPT
          !.devices = SetDevice(@, [name |-> device_name, vendor |-> vendor,
                                    platform |-> platform, os |-> os_type]),
          !.vendor_to_devices =
              Put(@, vendor, Append(Get(@, vendor, <<>>), device_name)),
          !.platform_to_vendor = Put(@, platform, vendor)]

RegisterDevice(registry, device_name, device_config) ==
    LET platform == Lower(Get(device_config, "platform", "unknown"))
        os_type == Lower(Get(device_config, "os", "unknown"))
        vendor == DetectVendor(platform, os_type, device_name)
    IN [registry EXCEPT
          !.devices = SetDevice(@, [name |-> device_name, vendor |-> vendor,
                                    platform |-> platform, os |-> os_type]),
          !.vendor_to_devices =
              Put(@, vendor, Append(Get(@, vendor, <<>>), device_name)),
          !.platform_to_vendor =
              IF platform \in DOMAIN @ THEN @ ELSE Put(@, platform, vendor)]

(***************************************************************************)
(* The lookups, lines 117-140 and 198-241.                                 *)
(***************************************************************************)
\* device_name in self.devices
Registered(registry, device_name) ==
    \E i \in 1..Len(registry.devices) : registry.devices[i].name = device_name

\* Mutant: a device that is not registered gets the vendor its name suggests.
GetDeviceVendor_Inferred(registry, device_name) ==
    IF Registered(registry, device_name)
    THEN LET i == CHOOSE j \in 1..Len(registry.devices) :
                      registry.devices[j].name = device_name
         IN registry.devices[i].vendor
    ELSE DetectVendor("unknown", "unknown", device_name)

GetDeviceVendor(registry, device_name) ==
    IF Registered(registry, device_name)
    THEN LET i == CHOOSE j \in 1..Len(registry.devices) :
                      registry.devices[j].name = device_name
         IN registry.devices[i].vendor
    ELSE None

\* Mutant: the vendor is looked up as given, not lower-cased.
GetStackForVendor_CaseSensitive(registry, vendor) ==
    IF vendor = None \/ vendor = "" THEN "pyats"
    ELSE Get(registry.vendor_stack_map, vendor, "pyats")

GetStackForVendor(registry, vendor) ==
    IF vendor = None \/ vendor = "" THEN "pyats"
    ELSE Get(registry.vendor_stack_map, Lower(vendor), "pyats")

GetStackForDevice(registry, device_name) ==
    GetStackForVendor(registry, GetDeviceVendor(registry, device_name))

\* categorized.setdefault(stack, []).append(device_name), name by name
RECURSIVE Categorize(_, _, _)
Categorize(registry, device_names, categorized) ==
    IF device_names = <<>> THEN categorized
    ELSE LET device_name == Head(device_names)
             stack == GetStackForDevice(registry, device_name)
         IN Categorize(registry, Tail(device_names),
                       IF device_name = "" \/ device_name = None
                       THEN categorized
                       ELSE Put(categorized, stack,
                                Append(Get(categorized, stack, <<>>),
                                       device_name)))

\* Mutant: a name already in its group is not added again.
RECURSIVE CategorizeDevicesByStack_Deduplicated(_, _)
CategorizeDevicesByStack_Deduplicated(registry, device_names) ==
    IF device_names = <<>> THEN EmptyDict
    ELSE LET front == SubSeq(device_names, 1, Len(device_names) - 1)
             last == device_names[Len(device_names)]
             categorized ==
                 CategorizeDevicesByStack_Deduplicated(registry, front)
         IN IF \E i \in 1..Len(front) : front[i] = last
            THEN categorized
            ELSE Categorize(registry, <<last>>, categorized)

CategorizeDevicesByStack(registry, device_names) ==
    Categorize(registry, device_names, EmptyDict)

ExtractDevicesFromText(registry, text) ==
    LET text_lower == Lower(text)
        names == [i \in 1..Len(registry.devices) |-> registry.devices[i].name]
        Mentioned(device_name) == Contains(text_lower, Lower(device_name))
    IN SelectSeq(names, Mentioned)

GetVendorFromKeywords(text) ==
    LET text_lower == Lower(text)
    IN IF ContainsAny(text_lower, <<"junos", "juniper", "vsrx", "srx">>)
       THEN "juniper"
       ELSE IF ContainsAny(text_lower, <<"cisco", "ios", "iosxe">>)
       THEN "cisco"
       ELSE IF ContainsAny(text_lower, <<"comware", "hpe">>) THEN "hpe"
       ELSE IF ContainsAny(text_lower, <<"meraki">>) THEN "meraki"
       ELSE IF ContainsAny(text_lower, <<"linux", "ubuntu", "bash", "uname">>)
       THEN "linux"
       ELSE IF ContainsAny(text_lower, <<"windows", "powershell", "Get-">>)
       THEN "windows"
       ELSE None

(***************************************************************************)
(* The files a DeviceRegistry is built from: the testbed document named by *)
(* testbed_path, and the vendor tag file as it is when __init__ reads it.  *)
(***************************************************************************)
TestbedPaths == {"testbed.yaml", "lab.yaml", "missing.yaml"}

Entry(device_name, device_config) ==
    [name |-> device_name, config |-> device_config]

TestbedFile(testbed_path) ==
    CASE testbed_path = "testbed.yaml" ->
           [exists |-> TRUE,
            devices |->
              <<Entry("R1", [platform |-> "iosxe", os |-> "iosxe"]),
                Entry("FW1", [platform |-> "vSRX", os |-> "junos"]),
                Entry("web1", [os |-> "Ubuntu"])>>]
      [] testbed_path = "lab.yaml" ->
           [exists |-> TRUE,
            devices |->
              <<Entry("R2", [platform |-> "nxos", os |-> "nxos"]),
                Entry("R1", [platform |-> "iosxe", os |-> "iosxe"])>>]
      [] OTHER -> [exists |-> FALSE, devices |-> <<>>]

NoTagFile == [kind |-> "missing", stacks |-> <<>>]

BrokenTagFile == [kind |-> "unparseable", stacks |-> <<>>]

TagFile(stacks) == [kind |-> "document", stacks |-> stacks]

Stack(stack_name, vendors) == [stack_name |-> stack_name, vendors |-> vendors]

TagDocuments ==
    {NoTagFile,
     BrokenTagFile,
     TagFile(<<Stack("netmiko", <<" Juniper ", "Arista", "">>),
               Stack("ansible", <<"cisco">>)>>),
     TagFile(<<Stack("", <<"hpe">>)>>)}

OneTagDocument == {NoTagFile}

(***************************************************************************)
(* get_device_registry and reload_device_registry, lines 288-302, called   *)
(* by concurrent callers.  DeviceRegistry(testbed_path) allocates a new    *)
(* object and __init__ fills it, device by device; only then is            *)
(* _global_registry rebound.                                               *)
(***************************************************************************)
IdleCaller ==
    [pc |-> "idle", obj |-> 0, testbed_path |-> None, index |-> 0,
     ref |-> 0, seen |-> None]

NoAnswer == [op |-> None, caller |-> None, input |-> None, output |-> None]

RegistryInit ==
    /\ registries = <<>>
    /\ global_registry = 0
    /\ callers = [c \in RegistryCallers |-> IdleCaller]
    /\ answer = NoAnswer

\* The caller starts DeviceRegistry(testbed_path): lines 20-27
Construct(c, testbed_path, tag_file) ==
    /\ registries' = Append(registries, NewRegistry(testbed_path, tag_file))
    /\ callers' = [callers EXCEPT ![c].pc = "loading",
                                  ![c].obj = Len(registries) + 1,
                                  ![c].testbed_path = testbed_path,
                                  ![c].index = 1]
    /\ UNCHANGED <<global_registry, answer, telemetryVars, classifierVars>>

\* get_device_registry, lines 291-295
GetDeviceRegistry(c, testbed_path, tag_file) ==
    /\ callers[c].pc = "idle"
    /\ IF global_registry = 0
       THEN Construct(c, testbed_path, tag_file)
       ELSE /\ callers' = [callers EXCEPT ![c].pc = "return"]
            /\ UNCHANGED <<registries, global_registry, answer,
                           telemetryVars, classifierVars>>

\* reload_device_registry, lines 298-301
ReloadDeviceRegistry(c, testbed_path, tag_file) ==
    /\ callers[c].pc = "idle"
    /\ Construct(c, testbed_path, tag_file)

\* Mutant: the new object counts as built before load_devices has run.
Constructed_AtOnce(c) == TRUE

\* load_devices, lines 66-85, has nothing left to register
Constructed(c) ==
    LET testbed == TestbedFile(callers[c].testbed_path)
    IN ~testbed.exists \/ callers[c].index > Len(testbed.devices)

\* load_devices, lines 76-77: one register_device call
LoadDevices(c) ==
    /\ callers[c].pc = "loading"
    /\ ~Constructed(c)
    /\ LET entry == TestbedFile(callers[c].testbed_path)
                        .devices[callers[c].index]
       IN registries' = [registries EXCEPT ![callers[c].obj] =
                            RegisterDevice(@, entry.name, entry.config)]
    /\ callers' = [callers EXCEPT ![c].index = @ + 1]
    /\ UNCHANGED <<global_registry, answer, telemetryVars, classifierVars>>

\* lines 295 and 301: _global_registry = the object just built
AssignGlobal(c) ==
    /\ callers[c].pc = "loading"
    /\ Constructed(c)
    /\ global_registry' = callers[c].obj
    /\ callers' = [callers EXCEPT ![c].pc = "return"]
    /\ UNCHANGED <<registries, answer, telemetryVars, classifierVars>>

\* lines 296 and 302: return _global_registry; the caller holds it from
\* now on, and `seen` keeps what it held at that moment
ReturnRegistry(c) ==
    /\ callers[c].pc = "return"
    /\ callers' = [callers EXCEPT ![c].pc = "idle",
                                  ![c].ref = global_registry,
                                  ![c].seen = registries[global_registry]]
    /\ UNCHANGED <<registries, global_registry, answer, telemetryVars,
                   classifierVars>>

(***************************************************************************)
(* Lookups made by a caller on the registry it holds.                      *)
(***************************************************************************)
Holds(c) == callers[c].pc = "idle" /\ callers[c].ref # 0

Held(c) == registries[callers[c].ref]

Answer(c, op, input, output) ==
    /\ answer' = [op |-> op, caller |-> c, input |-> input, output |-> output]
    /\ UNCHANGED <<registries, global_registry, callers, telemetryVars,
                   classifierVars>>

\* The first member of a routing result: None or a list of devices.
NoDevices == [is_none |-> TRUE, list |-> <<>>]

DeviceList(device_names) == [is_none |-> FALSE, list |-> device_names]

\* line 274: the vendors of the mentioned devices
RoutingVendors(registry, mentioned_devices) ==
    {GetDeviceVendor(registry, mentioned_devices[i]) :
        i \in {j \in 1..Len(mentioned_devices) :
                  Registered(registry, mentioned_devices[j])}}

\* line 275, vendors.pop(): the element a set of strings gives up first
\* depends on the hash seed of the process, so any of them.
Pop(vendors) == IF vendors = {} THEN {None} ELSE vendors

\* Mutant: a vendor keyword in the text is looked at before the devices.
RoutingBranch_KeywordFirst(mentioned_devices, vendor_keyword) ==
    IF vendor_keyword # None THEN "keyword"
    ELSE IF mentioned_devices # <<>> THEN "devices"
    ELSE "none"

\* lines 272, 278, 282: which branch of get_routing_path runs
RoutingBranch(mentioned_devices, vendor_keyword) ==
    IF mentioned_devices # <<>> THEN "devices"
    ELSE IF vendor_keyword # None THEN "keyword"
    ELSE "none"

\* get_routing_path, lines 264-285
GetRoutingPath(c, text) ==
    /\ Holds(c)
    /\ LET mentioned_devices == ExtractDevicesFromText(Held(c), text)
           vendor_keyword == GetVendorFromKeywords(text)
           branch == RoutingBranch(mentioned_devices, vendor_keyword)
       IN IF branch = "devices"
          THEN \E primary_vendor \in
                     Pop(RoutingVendors(Held(c), mentioned_devices)) :
                  Answer(c, "get_routing_path", text,
                         [devices |-> DeviceList(mentioned_devices),
                          vendor |-> primary_vendor])
          ELSE IF branch = "keyword"
          THEN Answer(c, "get_routing_path", text,
                      [devices |-> NoDevices, vendor |-> vendor_keyword])
          ELSE Answer(c, "get_routing_path", text,
                      [devices |-> NoDevices, vendor |-> None])

CategorizeCall(c, device_names) ==
    /\ Holds(c)
    /\ Answer(c, "categorize_devices_by_stack", device_names,
              CategorizeDevicesByStack(Held(c), device_names))

StackForVendorCall(c, vendor) ==
    /\ Holds(c)
    /\ Answer(c, "get_stack_for_vendor", vendor,
              GetStackForVendor(Held(c), vendor))

\* register_device, lines 87-115, called on the registry the caller holds
RegisterCall(c, device_name, device_config) ==
    /\ Holds(c)
    /\ registries' = [registries EXCEPT ![callers[c].ref] =
                         RegisterDevice(@, device_name, device_config)]
    /\ answer' = [op |-> "register_device", caller |-> c,
                  input |-> device_name, output |-> None]
    /\ UNCHANGED <<global_registry, callers, telemetryVars, classifierVars>>

DeviceVendorCall(c, device_name) ==
    /\ Holds(c)
    /\ Answer(c, "get_device_vendor", device_name,
              GetDeviceVendor(Held(c), device_name))

StackForDeviceCall(c, device_name) ==
    /\ Holds(c)
    /\ Answer(c, "get_stack_for_device", device_name,
              GetStackForDevice(Held(c), device_name))

\* The arguments of the lookups.
Texts ==
    {"show version on R1", "compare r1 with FW1", "check junos uptime",
     "show junos version on R1", "restart the printer"}

Names == {"R1", "FW1", "ghost"}

\* The devices registered by hand, and their configurations: a platform
\* and an OS in agreement or not, in any letter case, or neither of them.
NewNames == {"R1", "lab-firewall"}

Configs ==
    {[platform |-> "IOSXE", os |-> "iosxe"],
     [platform |-> "iosxe", os |-> "junos"],
     [platform |-> "iosxe", os |-> "Ubuntu"],
     [platform |-> "cat-iosxe-mx", os |-> "iosxe"],
     [platform |-> "hp-comware", os |-> "windows"],
     [platform |-> "meraki", os |-> "linux"],
     [platform |-> "winrm"],
     [os |-> "vsrx"],
     [os |-> "ubuntu"],
     [type |-> "router"]}

\* Of these, three that give one device name two vendors and one platform
\* ("unknown", the default) two vendors.
FewConfigs ==
    {[platform |-> "iosxe", os |-> "junos"],
     [os |-> "ubuntu"],
     [type |-> "router"]}

NameLists == UNION {[1..n -> Names] : n \in 0..MaxNames}

Vendors ==
    {None, "", "cisco", "Cisco", "JUNIPER", "arista", "hpe", " cisco",
     "vmware"}

\* Sum of nCalls over all devices.
RECURSIVE SumOver(_, _)
SumOver(f, S) ==
    IF S = {} THEN 0
    ELSE LET x == CHOOSE y \in S : TRUE IN f[x] + SumOver(f, S \ {x})

CallsMade == SumOver(nCalls, Devices)

\* The register_device calls a registry has received.
Registrations(registry) ==
    SumOver([vendor \in DOMAIN registry.vendor_to_devices |->
                Len(registry.vendor_to_devices[vendor])],
            DOMAIN registry.vendor_to_devices)

(***************************************************************************)
(* Spec: recordExecution calls with every status, a few calls.             *)
(***************************************************************************)
Init == TelemetryInit /\ ClassifierInit /\ RegistryInit

Next ==
    \E device \in FewDevices, command \in Commands,
       status \in ExecutionStatus, delay \in Delays :
        /\ CallsMade < MaxCalls
        /\ now + delay <= MaxClock
        /\ RecordExecution(device, command, status, delay, NoDuration)

Spec == Init /\ [][Next]_vars

(***************************************************************************)
(* SpecAlerts: runs long enough for the failure-rate rule (10 samples),    *)
(* made within one second.                                                 *)
(***************************************************************************)
NextAlerts ==
    \E device \in FewDevices, command \in OneCommand,
       status \in AlertStatuses :
        /\ CallsMade < MaxAlertCalls
        /\ RecordExecution(device, command, status, 0, NoDuration)

SpecAlerts == Init /\ [][NextAlerts]_vars

(***************************************************************************)
(* SpecStreak: runs long enough for the consecutive-failures rule, with    *)
(* time passing between the calls.                                         *)
(***************************************************************************)
NextStreak ==
    \E device \in FewDevices, command \in OneCommand,
       status \in StreakStatuses, delay \in Delays :
        /\ CallsMade < MaxStreakCalls
        /\ now + delay <= MaxClock
        /\ RecordExecution(device, command, status, delay, NoDuration)

SpecStreak == Init /\ [][NextStreak]_vars

(***************************************************************************)
(* SpecRegression: one command run on three devices, with time passing.    *)
(***************************************************************************)
NextRegression ==
    \E device \in Devices, command \in Commands,
       status \in RegressionStatuses, delay \in Delays :
        /\ CallsMade < MaxRegressionCalls
        /\ now + delay <= MaxClock
        /\ RecordExecution(device, command, status, delay, NoDuration)

SpecRegression == Init /\ [][NextRegression]_vars

(***************************************************************************)
(* SpecRetention: calls spread over twice the retention window, so that    *)
(* entries older than the window, at its edge and inside it meet.          *)
(***************************************************************************)
NextRetention ==
    \E device \in FewDevices, command \in OneCommand,
       status \in AlertStatuses, delay \in RetentionDelays :
        /\ CallsMade < MaxRetentionCalls
        /\ now + delay <= MaxRetentionClock
        /\ RecordExecution(device, command, status, delay, NoDuration)

SpecRetention == Init /\ [][NextRetention]_vars

(***************************************************************************)
(* SpecPurge: ten and more calls for one device, the retention window      *)
(* passing once between two of them, so that all earlier entries leave the *)
(* history.                                                                *)
(***************************************************************************)
NextPurge ==
    \E device \in OneDevice, command \in OneCommand,
       status \in AlertStatuses, delay \in PurgeDelays :
        /\ CallsMade < MaxPurgeCalls
        /\ now + delay <= MaxClock
        /\ RecordExecution(device, command, status, delay, NoDuration)

SpecPurge == Init /\ [][NextPurge]_vars

(***************************************************************************)
(* SpecDuration: calls with and without a duration, numeric or not.        *)
(***************************************************************************)
NextDuration ==
    \E device \in FewDevices, command \in OneCommand,
       status \in AlertStatuses, delay \in Delays,
       duration_ms \in Durations :
        /\ CallsMade < MaxDurationCalls
        /\ now + delay <= MaxClock
        /\ RecordExecution(device, command, status, delay, duration_ms)

SpecDuration == Init /\ [][NextDuration]_vars

(***************************************************************************)
(* SpecExport: executions are recorded and the metrics exported, to a path *)
(* that can be written or to one that cannot.                              *)
(***************************************************************************)
NextExport ==
    \/ \E device \in FewDevices, command \in OneCommand,
          status \in AlertStatuses, delay \in Delays :
           /\ CallsMade < MaxExportCalls
           /\ now + delay <= MaxClock
           /\ RecordExecution(device, command, status, delay, NoDuration)
    \/ \E writable \in BOOLEAN : ExportMetrics(writable)

SpecExport == Init /\ [][NextExport]_vars

(***************************************************************************)
(* SpecThreads: two threads record executions of one command through the   *)
(* global instance, all within one second.                                 *)
(***************************************************************************)
NextThreads ==
    \E t \in Threads :
        \/ \E device \in FewDevices, command \in OneCommand,
              status \in AlertStatuses :
               /\ CallsMade < MaxThreadCalls
               /\ ThreadCall(t, device, command, status)
        \/ ReadTotal(t)
        \/ WriteTotal(t)
        \/ ReadCount(t)
        \/ WriteCount(t)
        \/ AppendHistory(t)
        \/ PruneRead(t)
        \/ PruneAssign(t)
        \/ CmdReadTotal(t)
        \/ CmdWriteTotal(t)
        \/ CmdReadCount(t)
        \/ CmdWriteCount(t)
        \/ ThreadReturn(t)

SpecThreads == Init /\ [][NextThreads]_vars

(***************************************************************************)
(* SpecRegistry: two callers get and reload the global registry, each      *)
(* testbed read as it is on disk.                                          *)
(***************************************************************************)
NextRegistry ==
    \E c \in RegistryCallers :
        \/ \E testbed_path \in TestbedPaths, tag_file \in OneTagDocument :
               GetDeviceRegistry(c, testbed_path, tag_file)
        \/ \E testbed_path \in TestbedPaths, tag_file \in OneTagDocument :
               /\ Len(registries) < MaxRegistries
               /\ ReloadDeviceRegistry(c, testbed_path, tag_file)
        \/ LoadDevices(c)
        \/ AssignGlobal(c)
        \/ ReturnRegistry(c)

SpecRegistry == Init /\ [][NextRegistry]_vars

(***************************************************************************)
(* SpecRouting: one caller gets the registry, built from any testbed and   *)
(* any vendor tag file, and makes lookups on it.                           *)
(***************************************************************************)
NextRouting ==
    \E c \in OneCaller :
        \/ \E testbed_path \in TestbedPaths, tag_file \in TagDocuments :
               GetDeviceRegistry(c, testbed_path, tag_file)
        \/ LoadDevices(c)
        \/ AssignGlobal(c)
        \/ ReturnRegistry(c)
        \/ \E text \in Texts : GetRoutingPath(c, text)
        \/ \E device_names \in NameLists : CategorizeCall(c, device_names)
        \/ \E vendor \in Vendors : StackForVendorCall(c, vendor)

SpecRouting == Init /\ [][NextRouting]_vars

(***************************************************************************)
(* SpecRegister: one caller gets the registry, registers further devices,  *)
(* some again under another configuration, and looks devices up.           *)
(***************************************************************************)
NextRegister ==
    \E c \in OneCaller :
        \/ \E testbed_path \in TestbedPaths, tag_file \in TagDocuments :
               GetDeviceRegistry(c, testbed_path, tag_file)
        \/ LoadDevices(c)
        \/ AssignGlobal(c)
        \/ ReturnRegistry(c)
        \/ \E device_name \in NewNames, device_config \in FewConfigs :
               /\ Holds(c)
               /\ Registrations(Held(c)) < MaxRegistrations
               /\ RegisterCall(c, device_name, device_config)
        \/ \E device_name \in Names \cup NewNames :
               DeviceVendorCall(c, device_name)
        \/ \E device_name \in Names \cup NewNames :
               StackForDeviceCall(c, device_name)

SpecRegister == Init /\ [][NextRegister]_vars

(***************************************************************************)
(* SpecDetect: one caller gets the registry and registers one more device, *)
(* of any configuration.                                                   *)
(***************************************************************************)
NextDetect ==
    \E c \in OneCaller :
        \/ \E testbed_path \in TestbedPaths, tag_file \in OneTagDocument :
               GetDeviceRegistry(c, testbed_path, tag_file)
        \/ LoadDevices(c)
        \/ AssignGlobal(c)
        \/ ReturnRegistry(c)
        \/ \E device_name \in NewNames, device_config \in Configs :
               /\ Holds(c)
               /\ Registrations(Held(c)) <
                      Len(TestbedFile(Held(c).testbed_path).devices)
                      + MaxDetections
               /\ RegisterCall(c, device_name, device_config)
        \/ \E device_name \in Names \cup NewNames :
               DeviceVendorCall(c, device_name)

SpecDetect == Init /\ [][NextDetect]_vars

(***************************************************************************)
(* SpecClassify: classify calls, one at a time, against a backend that     *)
(* replies anything or raises.  SpecClassifyFair adds that the classifier  *)
(* itself always runs on once the backend has responded; nothing obliges   *)
(* the backend to respond.                                                 *)
(***************************************************************************)
NextClassify ==
    \/ \E text \in Queries, imported \in Lookups,
          use_ollama \in BOOLEAN, use_groq \in BOOLEAN :
           Classify(text, imported, use_ollama, use_groq)
    \/ \E reply \in Responses : BackendResponds(reply)
    \/ FinishClassify

SpecClassify == Init /\ [][NextClassify]_vars

SpecClassifyFair == SpecClassify /\ WF_vars(FinishClassify)

(***************************************************************************)
(* Properties of the telemetry engine.                                     *)
(***************************************************************************)
\* The latest call returned an alert of this kind.
HasAlert(kind) ==
    /\ ~lastReturn.is_none
    /\ \E i \in 1..Len(lastReturn.alerts) : lastReturn.alerts[i].kind = kind

\* The latest call was made for this device.
LatestCallOn(device) == lastCall.device = device

\* The five latest calls for the device were all non-success.
FiveNonSuccessInARow(device) ==
    /\ Len(callLog[device]) = ConsecutiveFailuresThreshold
    /\ \A i \in 1..Len(callLog[device]) : callLog[device][i].status # "SUCCESS"

\* The devices the command ever failed on, as the calls were made.
FailedDevices(command) == {d \in Devices : <<command, d>> \in everFailed}

\* C1: after any sequence of recordExecution calls, with any of the six
\* statuses, every device's total equals the number of calls made for it and
\* its success and failure counters add up to that number.
C1_CountersMatchCalls ==
    \A d \in Devices :
        /\ device_metrics[d].total = nCalls[d]
        /\ device_metrics[d].success + device_metrics[d].failure = nCalls[d]

\* Three calls for R1 with three different statuses, none of them FAILURE.
C1_Witness ==
    /\ nCalls["R1"] = 3
    /\ {callLog["R1"][i].status : i \in 1..Len(callLog["R1"])} =
           {"TIMEOUT", "NO_DEVICE", "SUCCESS"}

\* C2: a call for device D returns HIGH FAILURE RATE exactly when, after its
\* counter update, D has at least 10 recorded executions and more than 30%
\* of them failed; no call made while D has fewer than 10 returns it.
C2_HighFailureRateIff ==
    \A d \in Devices :
        LatestCallOn(d) =>
            /\ HasAlert("HIGH FAILURE RATE") <=>
                  /\ device_metrics[d].total >= 10
                  /\ 10 * device_metrics[d].failure > 3 * device_metrics[d].total
            /\ nCalls[d] < 10 => ~HasAlert("HIGH FAILURE RATE")

\* The 10th of 10 FAILURE executions on R1 returns the alert.
C2_Witness ==
    /\ LatestCallOn("R1")
    /\ nCalls["R1"] = 10
    /\ device_metrics["R1"].failure = 10
    /\ HasAlert("HIGH FAILURE RATE")

\* C3 as stated: whenever 5 non-success executions are recorded in a row for
\* one device, the 5th of those calls returns CONSECUTIVE FAILURES.
C3_FiveInARowAlerts ==
    \A d \in Devices :
        (LatestCallOn(d) /\ FiveNonSuccessInARow(d))
            => HasAlert("CONSECUTIVE FAILURES")

\* C3 amended: whenever 5 non-success executions are recorded in a row for
\* one device and the first of the five is still inside the retention window
\* at the 5th call, that call returns CONSECUTIVE FAILURES.
C3_FiveInARowInWindowAlerts ==
    \A d \in Devices :
        (/\ LatestCallOn(d)
         /\ FiveNonSuccessInARow(d)
         /\ callLog[d][1].t > now - retention_seconds)
            => HasAlert("CONSECUTIVE FAILURES")

\* Five non-success executions of R1, a TIMEOUT among them, spread over more
\* than one instant but inside the window: the 5th returns the alert.
C3_Witness ==
    /\ LatestCallOn("R1")
    /\ FiveNonSuccessInARow("R1")
    /\ \E i \in 1..5 : callLog["R1"][i].status = "TIMEOUT"
    /\ callLog["R1"][1].t < now
    /\ callLog["R1"][1].t > now - retention_seconds
    /\ HasAlert("CONSECUTIVE FAILURES")

\* C4: a SUCCESS recorded for D resets D's streak: a call for D returns
\* CONSECUTIVE FAILURES only when the five latest executions recorded for D
\* are all non-success, so neither the call recording a SUCCESS nor any of
\* the four calls for D after it returns the alert.
C4_SuccessResetsStreak ==
    \A d \in Devices :
        (LatestCallOn(d) /\ HasAlert("CONSECUTIVE FAILURES"))
            => FiveNonSuccessInARow(d)

\* Five failures of R1 (the alert is due) and then a SUCCESS, which returns
\* no alert.
C4_Witness ==
    /\ LatestCallOn("R1")
    /\ nCalls["R1"] = 6
    /\ lastCall.status = "SUCCESS"
    /\ \A i \in 1..4 : callLog["R1"][i].status # "SUCCESS"
    /\ ~HasAlert("CONSECUTIVE FAILURES")

\* C5: a call for command C returns COMMAND REGRESSION exactly when C has
\* failed, at any time since the start, on at least 3 distinct devices;
\* repeated failures on one device count once.
C5_RegressionIff ==
    lastCall.command \in Commands =>
        (HasAlert("COMMAND REGRESSION")
            <=> Cardinality(FailedDevices(lastCall.command)) >= 3)

\* The command failed twice on one device and once on two others, the first
\* failure older than the retention window: the 4th call returns the alert.
C5_Witness ==
    /\ lastCall.command \in Commands
    /\ command_metrics[lastCall.command].failure = 4
    /\ Cardinality(FailedDevices(lastCall.command)) = 3
    /\ \E d \in Devices : device_metrics[d].total = 2
    /\ now = 3600
    /\ HasAlert("COMMAND REGRESSION")

\* No thread is inside record_execution.
AllCompleted == \A t \in Threads : threads[t].pc = "idle"

\* C11: when recordExecution calls touching the same device or the same
\* command run concurrently, no update is lost: once all have completed,
\* each device's total is the number of calls made for it, the command's
\* total is the number of calls made for it (every call of SpecThreads runs
\* the one command), and every history entry appended inside the retention
\* window is still present.
C11_NoLostUpdate ==
    AllCompleted =>
        /\ \A d \in Devices :
              /\ device_metrics[d].total = nCalls[d]
              /\ Len(device_metrics[d].status_history) = nCalls[d]
        /\ \A c \in OneCommand : command_metrics[c].total = CallsMade

\* The log holds every call made for the device.
LogComplete(device) == nCalls[device] = Len(callLog[device])

\* The logged calls for the device that lie inside the retention window.
InWindow(device) ==
    LET Inside(call) == call.t > now - retention_seconds
    IN SelectSeq(callLog[device], Inside)

\* The history entry record_execution appends for a logged call.
HistoryEntry(call) == [status |-> StatusValue(call.status), t |-> call.t]

\* C13: when the alert rules are evaluated in a recordExecution call for D,
\* D's history holds no entry older than the retention window and holds
\* every entry recorded inside the window, in order, however many.
C13_HistoryIsTheWindow ==
    \A d \in Devices :
        (LatestCallOn(d) /\ LogComplete(d)) =>
            LET history == device_metrics[d].status_history
                inside == InWindow(d)
                k == Len(inside)
            IN /\ \A i \in 1..Len(history) :
                      ~(history[i].t < now - retention_seconds)
               /\ Len(history) >= k
               /\ \A i \in 1..k :
                      history[Len(history) - k + i] = HistoryEntry(inside[i])

\* Four executions of R1, the first older than the window at the fourth
\* call and the second at its edge: two entries are left.
C13_Witness ==
    /\ LatestCallOn("R1")
    /\ nCalls["R1"] = 4
    /\ callLog["R1"][1].t < now - retention_seconds
    /\ callLog["R1"][2].t = now - retention_seconds
    /\ Len(InWindow("R1")) = 2
    /\ Len(device_metrics["R1"].status_history) = 2

\* The TIMEOUT executions logged for the device.
TimeoutsRecorded(device) ==
    Cardinality({i \in 1..Len(callLog[device]) :
                    callLog[device][i].status = "TIMEOUT"})

\* C14: recording a TIMEOUT execution for D increments D's failure counter
\* and D's timeout counter: after any sequence of calls timeout(D) is the
\* number of TIMEOUT executions recorded for D.
C14_TimeoutsCounted ==
    \A d \in Devices :
        LogComplete(d) =>
            /\ device_metrics[d].timeout = TimeoutsRecorded(d)
            /\ device_metrics[d].failure >= TimeoutsRecorded(d)

\* C15: recordExecution never raises outward; a call whose duration is not
\* a number or is absent completes, adds one to the device's and the
\* command's totals, appends to the history and leaves the device's average
\* duration unchanged.
C15_NeverRaises ==
    [][\A d \in Devices :
          nCalls'[d] # nCalls[d] =>
              /\ lastReturn'.exc = None
              /\ lastCall'.duration_ms.tag # "number" =>
                    /\ device_metrics'[d].total = device_metrics[d].total + 1
                    /\ device_metrics'[d].avg_duration_ms
                           = device_metrics[d].avg_duration_ms
                    /\ device_metrics'[d].last_execution = now'
                    /\ command_metrics'[lastCall'.command].total
                           = command_metrics[lastCall'.command].total + 1]_vars

\* C16: when writing the export file fails, exportMetrics returns normally,
\* and the device and command metrics are the same after the call as
\* before it.
C16_ExportNeverRaises ==
    [][exported' # exported =>
          /\ exported'.outcome = "returned"
          /\ device_metrics' = device_metrics
          /\ command_metrics' = command_metrics]_vars

(***************************************************************************)
(* Properties of the intent classifier.                                    *)
(***************************************************************************)
\* The model-based attempt of the current call failed in transport or in
\* parsing: create() raised, the reply had no content, was not JSON, was
\* JSON of the wrong shape, or carried a confidence float() rejects.
LlmAttemptFailed ==
    \/ response.kind \in {"raise", "no_content", "not_json", "json_non_object"}
    \/ /\ response.kind = "json_object"
       /\ \/ response.intent.tag = "non_string"
          \/ response.confidence.tag \in {"text", "null"}

\* The reply of the current call is a JSON object with a string intent.
RepliedIntentString ==
    response.kind = "json_object" /\ response.intent.tag = "string"

\* C6: every classify call returns one of the six closed intents, whatever
\* the backend replies, and a call in which the backend errors returns a
\* result with method "keywords".
C6_ClosedIntentKeywordsOnError ==
    pc = "returned" =>
        /\ result.intent \in RequestIntent
        /\ response.kind = "raise" => result.method = "keywords"

\* The backend raised and the call returned the keyword result.
C6_Witness ==
    /\ pc = "returned"
    /\ response.kind = "raise"
    /\ user_query = "Show version on R1"
    /\ result.intent = "NETWORK_DEVICE"
    /\ result.method = "keywords"

C8_AwaitingCallReturns ==
    (pc = "awaiting_backend") ~> (pc = "returned")

\* C9 as stated: a JSON reply whose intent string is not one of the six
\* closed intents makes classify return OTHER.
C9_UnknownIntentBecomesOther ==
    (/\ pc = "returned"
     /\ RepliedIntentString
     /\ response.intent.str \notin RequestIntent)
        => result.intent = "OTHER"

\* C9 amended: a JSON object whose intent string, upper-cased, is not one of
\* the six closed intents and whose confidence is absent or convertible by
\* float() makes classify return OTHER with method "llm", whatever keyword
\* scoring of the text gives.
C9_UnknownIntentNumericConfidenceBecomesOther ==
    (/\ pc = "returned"
     /\ RepliedIntentString
     /\ Upper(response.intent.str) \notin RequestIntent
     /\ response.confidence.tag \in {"absent", "number", "numeric_string"})
        => (result.intent = "OTHER" /\ result.method = "llm")

\* The reply's intent is BOGUS for a text that keyword scoring gives to
\* NETWORK_DEVICE: the call returned OTHER.
C9_Witness ==
    /\ pc = "returned"
    /\ user_query = "Show version on R1"
    /\ RepliedIntentString
    /\ response.intent.str = "BOGUS"
    /\ response.confidence.tag = "number"
    /\ result.intent = "OTHER"

\* C10 as stated: when the model-based attempt fails in transport or
\* parsing, or the reply's intent string is outside the closed set, the
\* result has method "keywords" and the intent keyword scoring chooses.
C10_FailureOrUnknownIntentFallsBack ==
    (/\ pc = "returned"
     /\ \/ LlmAttemptFailed
        \/ RepliedIntentString /\ Upper(response.intent.str) \notin RequestIntent)
        => /\ result.method = "keywords"
           /\ result.intent = ClassifyWithKeywords(user_query).intent

\* C10 amended: when the model-based attempt fails in transport or parsing,
\* the result has method "keywords" and the intent keyword scoring chooses.
C10_FailureFallsBack ==
    (pc = "returned" /\ LlmAttemptFailed)
        => /\ result.method = "keywords"
           /\ result.intent = ClassifyWithKeywords(user_query).intent

\* The reply was not JSON; the call returned the keyword result of a text
\* whose highest score is shared by two intents.
C10_Witness ==
    /\ pc = "returned"
    /\ response.kind = "not_json"
    /\ user_query = "Find the incident"
    /\ result.method = "keywords"
    /\ result.intent = "SERVICENOW"

(***************************************************************************)
(* Properties of the device registry.                                      *)
(***************************************************************************)
\* The names of the registered devices, in the order of registration.
RegisteredNames(registry) ==
    [i \in 1..Len(registry.devices) |-> registry.devices[i].name]

\* The registry holds every device of the testbed it was built from, in the
\* device index, the vendor index and the platform index.
Complete(registry) ==
    LET testbed == TestbedFile(registry.testbed_path)
    IN /\ RegisteredNames(registry) =
              [i \in 1..Len(testbed.devices) |-> testbed.devices[i].name]
       /\ \A i \in 1..Len(registry.devices) :
              LET info == registry.devices[i]
              IN /\ info.vendor \in DOMAIN registry.vendor_to_devices
                 /\ \E j \in 1..Len(registry.vendor_to_devices[info.vendor]) :
                        registry.vendor_to_devices[info.vendor][j] = info.name
                 /\ info.platform \in DOMAIN registry.platform_to_vendor

\* C12: reloading the registry is an atomic swap: what get_device_registry
\* would hand out, and what a caller holds, is a registry with the complete
\* index of its testbed, never a partially rebuilt one, and a registry a
\* caller holds stays as it was when the caller got it.
C12_ReloadIsAtomicSwap ==
    /\ global_registry # 0 => Complete(registries[global_registry])
    /\ \A c \in RegistryCallers :
          callers[c].ref # 0 =>
              /\ registries[callers[c].ref] = callers[c].seen
              /\ Complete(callers[c].seen)

\* c1 holds the registry of testbed.yaml, which is still the global one,
\* while c2 is inside a reload that has registered one device of lab.yaml.
C12_Witness ==
    /\ callers["c1"].pc = "idle"
    /\ callers["c1"].ref # 0
    /\ callers["c1"].ref = global_registry
    /\ RegisteredNames(callers["c1"].seen) = <<"R1", "FW1", "web1">>
    /\ callers["c2"].pc = "loading"
    /\ callers["c2"].obj # global_registry
    /\ RegisteredNames(registries[callers["c2"].obj]) = <<"R2">>

\* The latest lookup was get_routing_path.
Routed == answer.op = "get_routing_path"

\* The registry the latest lookup was made on.
Asked == registries[callers[answer.caller].ref]

\* The registered devices the text of the latest lookup names.
Named == ExtractDevicesFromText(Asked, answer.input)

\* C17: when the text names at least one registered device, resolveRouting
\* returns exactly the devices found in the text together with the set of
\* all vendors those devices belong to; no vendor of a named device is left
\* out.
C17_DevicesWithAllTheirVendors ==
    (Routed /\ Named # <<>>) =>
        /\ answer.output.devices = DeviceList(Named)
        /\ {answer.output.vendor} = RoutingVendors(Asked, Named)

\* C18: when the text names no registered device, resolveRouting returns
\* (none, V) with V the vendor of the keyword cascade, (none, none) when no
\* keyword is present; a device named in the text takes precedence over any
\* vendor keyword in it.
C18_NoDeviceRoutesByKeyword ==
    Routed =>
        /\ Named = <<>> =>
              /\ answer.output.devices = NoDevices
              /\ answer.output.vendor = GetVendorFromKeywords(answer.input)
        /\ answer.input = "check junos uptime" =>
              answer.output = [devices |-> NoDevices, vendor |-> "juniper"]
        /\ answer.input = "restart the printer" =>
              answer.output = [devices |-> NoDevices, vendor |-> None]
        /\ Named # <<>> =>
              /\ answer.output.devices = DeviceList(Named)
              /\ answer.output.vendor \in RoutingVendors(Asked, Named)

\* "check junos uptime" asked of a registry that holds three devices, none
\* of them named: (none, "juniper").
C18_Witness ==
    /\ Routed
    /\ answer.input = "check junos uptime"
    /\ Len(Asked.devices) = 3
    /\ Named = <<>>
    /\ answer.output = [devices |-> NoDevices, vendor |-> "juniper"]

\* The latest lookup was categorize_devices_by_stack.
Categorized == answer.op = "categorize_devices_by_stack"

\* The names a list holds.
NamesIn(device_names) == {device_names[i] : i \in 1..Len(device_names)}

\* The number of entries in all groups together.
Entries(categorized) ==
    SumOver([stack \in DOMAIN categorized |-> Len(categorized[stack])],
            DOMAIN categorized)

\* The groups are pairwise disjoint, together they hold the names of the
\* input and no others, and each name is in the group of its stack,
\* unregistered ones under "pyats".
GroupsByStack(categorized, device_names) ==
    /\ \A s1, s2 \in DOMAIN categorized :
          s1 # s2 => NamesIn(categorized[s1]) \cap NamesIn(categorized[s2]) = {}
    /\ UNION {NamesIn(categorized[s]) : s \in DOMAIN categorized}
          = NamesIn(device_names)
    /\ \A s \in DOMAIN categorized : categorized[s] # <<>>
    /\ \A name \in NamesIn(device_names) :
          LET stack == IF Registered(Asked, name)
                       THEN GetStackForVendor(Asked,
                                              GetDeviceVendor(Asked, name))
                       ELSE "pyats"
          IN stack \in DOMAIN categorized
             /\ name \in NamesIn(categorized[stack])

\* C19 as stated: for a list of non-empty device names categorizeByStack
\* returns a partition of the deduplicated input: disjoint groups by stack
\* in which a name given twice appears once.
C19_PartitionOfDeduplicatedInput ==
    Categorized =>
        /\ GroupsByStack(answer.output, answer.input)
        /\ Entries(answer.output) = Cardinality(NamesIn(answer.input))

\* C19 amended: for a list of non-empty device names categorizeByStack
\* returns disjoint groups by stack that hold every name of the input as
\* many times as it was given: a name given twice appears twice in its
\* group.
C19_GroupsKeepEveryOccurrence ==
    Categorized =>
        /\ GroupsByStack(answer.output, answer.input)
        /\ Entries(answer.output) = Len(answer.input)
        /\ \A s \in DOMAIN answer.output :
              LET InGroup(name) == name \in NamesIn(answer.output[s])
              IN answer.output[s] = SelectSeq(answer.input, InGroup)

\* R1 given twice around FW1, asked of the registry of testbed.yaml with
\* the default stacks: R1 is twice in the pyats group.
C19_Witness ==
    /\ Categorized
    /\ answer.input = <<"R1", "FW1", "R1">>
    /\ DOMAIN answer.output = {"pyats", "ansible"}
    /\ answer.output["pyats"] = <<"R1", "R1">>
    /\ answer.output["ansible"] = <<"FW1">>

\* The latest lookup was get_stack_for_vendor.
StackAsked == answer.op = "get_stack_for_vendor"

\* The stack names of the vendor tag file the registry was built from.
StackNames(registry) ==
    {registry.vendor_tag_file.stacks[i].stack_name :
        i \in 1..Len(registry.vendor_tag_file.stacks)}

\* The stack the lookup has to give: that of the vendor, lower-cased, in
\* the vendor-stack map, and "pyats" for any other input.
MappedOrDefault(registry, vendor) ==
    IF vendor \in {None, ""} THEN "pyats"
    ELSE IF Lower(vendor) \in DOMAIN registry.vendor_stack_map
    THEN registry.vendor_stack_map[Lower(vendor)]
    ELSE "pyats"

\* What the built-in map and the override of the third tag document give.
ExpectedStacks(registry) ==
    /\ answer.input \in {None, "", "vmware", " cisco"} =>
          answer.output = "pyats"
    /\ registry.vendor_tag_file.kind # "document" =>
          /\ answer.input \in {"cisco", "Cisco", "arista"} =>
                answer.output = "pyats"
          /\ answer.input \in {"JUNIPER", "hpe"} => answer.output = "ansible"
    /\ "netmiko" \in StackNames(registry) =>
          /\ answer.input \in {"JUNIPER", "arista"} =>
                answer.output = "netmiko"
          /\ answer.input \in {"cisco", "Cisco", "hpe"} =>
                answer.output = "ansible"

\* C20 as stated: getStackForVendor returns a non-empty stack name for every
\* input: the mapped stack of a vendor in the vendor-stack map, matched
\* after lower-casing, and "pyats" otherwise, also when the map was built
\* from an override document.
C20_StackIsNonEmpty ==
    StackAsked =>
        /\ answer.output # ""
        /\ answer.output = MappedOrDefault(Asked, answer.input)

\* C20 amended: getStackForVendor returns for every input the mapped stack
\* of a vendor in the vendor-stack map, matched after lower-casing, and
\* "pyats" otherwise; the name is non-empty unless the override document
\* the map was built from lists vendors under an empty stack name.
C20_StackIsMappedOrDefault ==
    StackAsked =>
        /\ answer.output = MappedOrDefault(Asked, answer.input)
        /\ ExpectedStacks(Asked)
        /\ answer.output = "" => "" \in StackNames(Asked)

\* "JUNIPER" asked of a registry whose override document moved juniper to
\* the stack netmiko.
C20_Witness ==
    /\ StackAsked
    /\ answer.input = "JUNIPER"
    /\ Asked.vendor_tag_file.kind = "document"
    /\ answer.output = "netmiko"


\* A device record of some registry built so far.
DeviceRecords ==
    UNION {{registries[r].devices[i] : i \in 1..Len(registries[r].devices)} :
             r \in 1..Len(registries)}

JuniperPlatformKeywords == <<"junos", "juniper", "vsrx", "srx", "mx", "ex">>

\* C21 as stated: every device whose platform contains "iosxe" has the
\* vendor "cisco", whatever its OS field and its name are.
C21_IosxeIsCisco ==
    \A device \in DeviceRecords :
        Contains(device.platform, "iosxe") => device.vendor = "cisco"

\* C21 amended: a device whose platform contains "iosxe" has the vendor
\* "juniper" when its platform also contains a Juniper platform keyword or
\* its OS field contains "junos", and "cisco" otherwise, whatever else the
\* OS field contains and whatever its name is.
C21_IosxeIsCiscoUnlessJuniper ==
    \A device \in DeviceRecords :
        Contains(device.platform, "iosxe") =>
            device.vendor =
                IF \/ ContainsAny(device.platform, JuniperPlatformKeywords)
                   \/ Contains(device.os, "junos")
                THEN "juniper"
                ELSE "cisco"

\* A device named after a firewall, with platform iosxe and OS ubuntu, is
\* registered as cisco.
C21_Witness ==
    \E device \in DeviceRecords :
        /\ device.name = "lab-firewall"
        /\ device.platform = "iosxe"
        /\ device.os = "ubuntu"
        /\ device.vendor = "cisco"


\* The inventory file of the registry does not exist.
InventoryMissing(registry) == ~TestbedFile(registry.testbed_path).exists

\* The last call was this lookup, made on a registry built from a missing
\* inventory file and still without devices.
LookupOnEmpty(op) ==
    /\ answer.op = op
    /\ InventoryMissing(Held(answer.caller))
    /\ Held(answer.caller).devices = <<>>

\* When load_devices has returned for a missing inventory file, the
\* registry under construction has no device in any of its indexes.
BuiltEmpty ==
    \A c \in RegistryCallers :
        (/\ callers[c].pc = "loading"
         /\ Constructed(c)
         /\ InventoryMissing(registries[callers[c].obj])) =>
            /\ registries[callers[c].obj].devices = <<>>
            /\ registries[callers[c].obj].vendor_to_devices = EmptyDict
            /\ registries[callers[c].obj].platform_to_vendor = EmptyDict

\* C22 as stated: a registry built from a missing inventory file has zero
\* devices, and on it every device-vendor lookup returns "unknown" and every
\* device-stack lookup returns "pyats".
C22_EmptyRegistryAnswersUnknown ==
    /\ BuiltEmpty
    /\ LookupOnEmpty("get_device_vendor") => answer.output = "unknown"
    /\ LookupOnEmpty("get_stack_for_device") => answer.output = "pyats"

\* C22 amended: a registry built from a missing inventory file has zero
\* devices, and on it every device-vendor lookup returns no vendor (None)
\* and every device-stack lookup returns "pyats".
C22_EmptyRegistryAnswersNone ==
    /\ BuiltEmpty
    /\ LookupOnEmpty("get_device_vendor") => answer.output = None
    /\ LookupOnEmpty("get_stack_for_device") => answer.output = "pyats"

\* The stack of a device is looked up on the empty registry, whose vendor
\* tag file maps vendors to other stacks, and is "pyats".
C22_Witness ==
    /\ LookupOnEmpty("get_stack_for_device")
    /\ answer.input = "lab-firewall"
    /\ answer.output = "pyats"
    /\ Held(answer.caller).vendor_tag_file.kind = "document"


(***************************************************************************)
(* Properties of the keyword fallback's choice and of the confidence.      *)
(***************************************************************************)
\* The keyword-match scores of the requests classified, per intent in the
\* order of the closed intent set.
KeywordScores == [q \in Queries |-> IntentScores(Lower(q))]

\* The position of an intent in the closed intent set.
IntentIndex(intent) == CHOOSE i \in DOMAIN IntentOrder : IntentOrder[i] = intent

\* The call returned a result of the keyword fallback.
KeywordReturned == pc = "returned" /\ result.method = "keywords"

\* C23: the intent returned by the keyword fallback has the highest score of
\* all intents; of several intents with the highest non-zero score the one
\* enumerated first is returned; OTHER is returned only when no keyword
\* matched (and then it is).
C23_HighestScoreFirstEnumerated ==
    KeywordReturned =>
        LET scores == KeywordScores[user_query]
            returned == IntentIndex(result.intent)
        IN /\ \A i \in DOMAIN scores : scores[i] <= scores[returned]
           /\ scores[returned] > 0 =>
                  \A i \in DOMAIN scores :
                      scores[i] = scores[returned] => returned <= i
           /\ result.intent = "OTHER" <=> \A i \in DOMAIN scores : scores[i] = 0

\* "What is BGP?" matches one KNOWLEDGE and one NETWORK_DEVICE keyword, and
\* the keyword fallback returns KNOWLEDGE.
C23_Witness ==
    /\ KeywordReturned
    /\ user_query = "What is BGP?"
    /\ KeywordScores[user_query][IntentIndex("KNOWLEDGE")] = 1
    /\ KeywordScores[user_query][IntentIndex("NETWORK_DEVICE")] = 1
    /\ result.intent = "KNOWLEDGE"


\* A confidence within 0.0 - 1.0.
InUnitRange(confidence) ==
    /\ confidence.den > 0
    /\ 0 <= confidence.num
    /\ confidence.num <= confidence.den

\* C24: the confidence of every result returned by classify lies within
\* 0.0 - 1.0; in the keyword fallback it is the winning intent's score
\* divided by the sum of all scores, and 0.3 with OTHER when nothing matched.
C24_ConfidenceInUnitRange ==
    pc = "returned" =>
        /\ InUnitRange(result.confidence)
        /\ result.method = "keywords" =>
               LET scores == KeywordScores[user_query]
               IN result.confidence =
                      IF result.intent = "OTHER" THEN Fraction(3, 10)
                      ELSE Fraction(scores[IntentIndex(result.intent)],
                                    SumSeq(scores))


(***************************************************************************)
(* The vendor rules as a priority table.                                   *)
(***************************************************************************)
Rule(vendor, platform_keywords, os_keywords) ==
    [vendor |-> vendor, platform_keywords |-> platform_keywords,
     os_keywords |-> os_keywords]

\* The table as stated: one keyword list per rule, looked for in the
\* platform and in the OS field alike.
SameKeywords(vendor, keywords) == Rule(vendor, keywords, keywords)

StatedRules ==
    <<SameKeywords("juniper", JuniperPlatformKeywords),
      SameKeywords("cisco",
                   <<"ios", "iosxe", "iosxr", "csr", "nxos", "cisco">>),
      SameKeywords("hpe", <<"comware", "hpe", "hp">>),
      SameKeywords("meraki", <<"meraki">>),
      SameKeywords("linux",
                   <<"ubuntu", "linux", "debian", "centos", "rhel">>),
      SameKeywords("windows", <<"windows", "winrm">>)>>

\* The table with the keywords each rule looks for in each field.
FieldRules ==
    <<Rule("juniper", JuniperPlatformKeywords, <<"junos">>),
      Rule("cisco", <<"ios", "iosxe", "iosxr", "csr", "nxos", "cisco">>,
           <<"ios">>),
      Rule("hpe", <<"comware", "hpe", "hp">>, <<"comware">>),
      Rule("meraki", <<"meraki">>, <<"meraki">>),
      Rule("linux", <<"ubuntu", "linux", "debian", "centos", "rhel">>,
           <<"ubuntu", "linux", "debian", "centos", "rhel">>),
      Rule("windows", <<"windows", "winrm">>, <<"windows">>)>>

NameRules ==
    <<Rule("cisco", <<"router", "switch">>, <<>>),
      Rule("juniper", <<"firewall", "srx">>, <<>>),
      Rule("linux", <<"vm", "host">>, <<>>)>>

RuleMatches(rule, platform, os_type) ==
    \/ ContainsAny(platform, rule.platform_keywords)
    \/ ContainsAny(os_type, rule.os_keywords)

\* The vendor of the earliest rule of the table that matches, None if no
\* rule does.
FirstMatch(rules, platform, os_type) ==
    LET matching == {i \in DOMAIN rules :
                        RuleMatches(rules[i], platform, os_type)}
    IN IF matching = {} THEN None
       ELSE rules[CHOOSE i \in matching : \A j \in matching : i <= j].vendor

\* Vendor rules first, then the inference from the device name, then
\* "unknown".
TableVendor(rules, device) ==
    LET by_rule == FirstMatch(rules, device.platform, device.os)
        by_name == FirstMatch(NameRules, Lower(device.name), "")
    IN IF by_rule # None THEN by_rule
       ELSE IF by_name # None THEN by_name
       ELSE "unknown"

\* C25 as stated: the vendor of a device is that of the earliest rule, in
\* the order Juniper, Cisco, HPE, Meraki, Linux, Windows, device name,
\* "unknown", whose keywords its platform or its OS field contains.
C25_FirstMatchOfStatedRules ==
    \A device \in DeviceRecords :
        device.vendor = TableVendor(StatedRules, device)

\* C25 amended: the same priority table, where a rule matches when the
\* platform contains one of its platform keywords or the OS field one of
\* its OS keywords (Juniper: junos; Cisco: ios; HPE: comware; Meraki:
\* meraki; Linux: the platform's five; Windows: windows).
C25_FirstMatchOfFieldRules ==
    \A device \in DeviceRecords :
        device.vendor = TableVendor(FieldRules, device)

\* A device on which a later rule matches too and the earlier one wins:
\* HPE, by the platform, over Windows, by the OS field.
C25_Witness ==
    \E device \in DeviceRecords :
        /\ device.platform = "hp-comware"
        /\ device.os = "windows"
        /\ device.vendor = "hpe"


(***************************************************************************)
(* Properties of the indexes register_device maintains.                    *)
(***************************************************************************)
\* The device record a step has stored in a registry: one that is new at
\* its position in the device index.
StoredByStep(r, device) ==
    \E i \in 1..Len(registries'[r].devices) :
        /\ registries'[r].devices[i] = device
        /\ i <= Len(registries[r].devices) =>
               registries[r].devices[i] # device

\* What a step does to the platform index of a registry: an entry is never
\* changed, and a new entry carries the vendor detected for the device
\* whose registration the step is.
PlatformIndexStep(r) ==
    LET old == registries[r].platform_to_vendor
        new == registries'[r].platform_to_vendor
    IN /\ \A platform \in DOMAIN old :
              platform \in DOMAIN new /\ new[platform] = old[platform]
       /\ \A platform \in DOMAIN new \ DOMAIN old :
              \E i \in 1..Len(registries'[r].devices) :
                  LET device == registries'[r].devices[i]
                  IN /\ device.platform = platform
                     /\ device.vendor = new[platform]
                     /\ StoredByStep(r, device)

\* C26: the platform index maps each platform to the vendor detected for
\* the first device registered with that platform: a registration adds the
\* entry of a platform not yet there, with the vendor of the device being
\* registered, and leaves every existing entry unchanged.
C26_FirstPlatformVendorKept ==
    [][\A r \in DOMAIN registries : PlatformIndexStep(r)]_vars

\* Two devices registered with the same platform and different vendors;
\* the platform index has the vendor of the first.
C26_Witness ==
    \E r \in DOMAIN registries :
        LET devices == registries[r].devices
        IN /\ Len(devices) = 2
           /\ Registrations(registries[r]) = 2
           /\ devices[1].platform = devices[2].platform
           /\ devices[1].vendor # devices[2].vendor
           /\ registries[r].platform_to_vendor[devices[1].platform] =
                  devices[1].vendor


\* How many times a device name is listed under a vendor.
Listed(registry, vendor, device_name) ==
    Cardinality({i \in 1..Len(registry.vendor_to_devices[vendor]) :
                    registry.vendor_to_devices[vendor][i] = device_name})

\* C29: every registered device name appears exactly once in the
\* vendor-to-devices index, and only in the list of the vendor stored in
\* its Device record.
C29_ListedOnceUnderItsVendor ==
    \A r \in DOMAIN registries :
        \A i \in 1..Len(registries[r].devices) :
            LET device == registries[r].devices[i]
            IN \A vendor \in DOMAIN registries[r].vendor_to_devices :
                   Listed(registries[r], vendor, device.name) =
                       IF vendor = device.vendor THEN 1 ELSE 0


(***************************************************************************)
(* Properties of the alerts over the lifetime of the process.              *)
(***************************************************************************)
\* The step is a record_execution call for the command.
CallFor(command) == nCalls' # nCalls /\ lastCall'.command = command

\* C27: the set of devices a command failed on never shrinks, and once it
\* holds 3 devices every later call for that command returns COMMAND
\* REGRESSION, on any device and with any status.
C27_RegressionNeverClears ==
    [][\A command \in Commands :
          /\ command_metrics[command].devices_failed_on \subseteq
                 command_metrics'[command].devices_failed_on
          /\ (/\ Cardinality(command_metrics[command].devices_failed_on)
                    >= RegressionDevices
              /\ CallFor(command)) => HasAlert("COMMAND REGRESSION")']_vars

\* The command failed once on each of three devices; the 4th call, a
\* SUCCESS, returns the alert.
C27_Witness ==
    /\ lastCall.command \in Commands
    /\ lastCall.status = "SUCCESS"
    /\ command_metrics[lastCall.command].total = 4
    /\ command_metrics[lastCall.command].failure = 3
    /\ Cardinality(command_metrics[lastCall.command].devices_failed_on) = 3
    /\ HasAlert("COMMAND REGRESSION")


\* The counters of the device are those before the call plus the call.
CountedOnce(device) ==
    LET old == device_metrics[device]
        new == device_metrics'[device]
        failed == IF lastCall'.status = "SUCCESS" THEN 0 ELSE 1
    IN /\ new.total = old.total + 1
       /\ new.failure = old.failure + failed
       /\ new.success = old.success + 1 - failed

\* The history of the device holds no entry of a failure.
FailuresPurged(device) ==
    \A i \in 1..Len(device_metrics[device].status_history) :
        device_metrics[device].status_history[i].status = "success"

\* C28: whatever a call prunes from the history, it adds exactly itself to
\* the device's total, success and failure counters, and it returns HIGH
\* FAILURE RATE exactly when these lifetime counters say so (at least 10
\* executions, more than 30% of them failed).
C28_CountersOutlivePruning ==
    [][\A device \in Devices :
          (nCalls'[device] # nCalls[device]) =>
              /\ CountedOnce(device)
              /\ HasAlert("HIGH FAILURE RATE")' <=>
                     /\ device_metrics'[device].total >= MinSamples
                     /\ 10 * device_metrics'[device].failure >
                            3 * device_metrics'[device].total]_vars

\* The 10th call for R1 returns HIGH FAILURE RATE although every failure
\* of R1 is older than the retention window and gone from the history.
C28_Witness ==
    /\ LatestCallOn("R1")
    /\ nCalls["R1"] = 10
    /\ device_metrics["R1"].failure >= 4
    /\ Len(device_metrics["R1"].status_history) < 10
    /\ FailuresPurged("R1")
    /\ HasAlert("HIGH FAILURE RATE")


(***************************************************************************)
(* The device view and the command view of the same executions.            *)
(***************************************************************************)
DeviceSum(counter) ==
    SumOver([d \in Devices |-> device_metrics[d][counter]], Devices)

CommandSum(counter) ==
    SumOver([c \in Commands |-> command_metrics[c][counter]], Commands)

\* C30: after any sequence of calls made one after the other, the totals,
\* the successes and the failures summed over the devices equal those summed
\* over the commands, and every command's total is its success plus its
\* failure.
C30_ViewsAgree ==
    /\ \A counter \in {"total", "success", "failure"} :
           DeviceSum(counter) = CommandSum(counter)
    /\ \A c \in Commands :
           command_metrics[c].total =
               command_metrics[c].success + command_metrics[c].failure

=============================================================================
